---- MODULE Spec2Model ----
(***************************************************************************)
(* CVSS 4.0 scoring engine (utils/cvss4) and the CvssCalculator component  *)
(* that drives it.                                                         *)
(*                                                                         *)
(* Representation.  JavaScript strings are TLA+ strings.  A metrics object *)
(* is a function from its own keys to string values; an absent key is a    *)
(* key outside DOMAIN.  A score is kept in tenths (9.3 is 93): the table   *)
(* values, the clamp bounds and the severity thresholds are all scaled by  *)
(* ten, and the value before rounding is the exact fraction num/den of a   *)
(* tenth.  null, NaN and numbers are told apart by a tag.                  *)
(***************************************************************************)
EXTENDS Integers, Sequences, FiniteSets, TLC

VARIABLES
    pc,        \* position of the caller: "call", "scored", "done"
    op,        \* the entry point exercised in this run
    input,     \* the argument handed to the entry point
    result,    \* what the entry point returned
    recheck    \* a second result derived from the first (a stored vector re-scored, ...)

vars == <<pc, op, input, result, recheck>>

(***************************************************************************)
(* JavaScript values                                                       *)
(***************************************************************************)
Null == [t |-> "null", v |-> 0]
NaN == [t |-> "NaN", v |-> 0]
Num(n) == [t |-> "number", v |-> n]
Str(s) == [t |-> "string", s |-> s]
NoString == [t |-> "null", s |-> ""]
Obj(o) == [t |-> "object", o |-> o]
NoObject == [t |-> "null", o |-> <<>>]

\* !x for a JavaScript value x
Falsy(x) ==
    \/ x.t \in {"null", "undefined", "NaN"}
    \/ x.t = "number" /\ x.v = 0
    \/ x.t = "string" /\ x.s = ""

Has(obj, k) == k \in DOMAIN obj

\* obj[k] as a condition: undefined and "" are falsy
Truthy(obj, k) == Has(obj, k) /\ obj[k] # ""

(***************************************************************************)
(* Constant tables                                                         *)
(***************************************************************************)
\* option values of each base metric, in the order the UI lists them
CVSS4_METRICS ==
    [AV |-> <<"N", "A", "L", "P">>,
     AC |-> <<"L", "H">>,
     AT |-> <<"N", "P">>,
     PR |-> <<"N", "L", "H">>,
     UI |-> <<"N", "P", "A">>,
     VC |-> <<"H", "L", "N">>,
     VI |-> <<"H", "L", "N">>,
     VA |-> <<"H", "L", "N">>,
     SC |-> <<"H", "L", "N">>,
     SI |-> <<"H", "L", "N">>,
     SA |-> <<"H", "L", "N">>]

CVSS4_DEFAULTS ==
    [AV |-> "N", AC |-> "L", AT |-> "N", PR |-> "N", UI |-> "N",
     VC |-> "N", VI |-> "N", VA |-> "N",
     SC |-> "N", SI |-> "N", SA |-> "N"]

BASE_METRIC_ORDER == <<"AV", "AC", "AT", "PR", "UI", "VC", "VI", "VA", "SC", "SI", "SA">>

\* the rows of the lookup table, values in tenths
LOOKUP_ROWS == {
    <<"000000", 100>>, <<"000001", 99>>, <<"000010", 98>>, <<"000011", 95>>, <<"000020", 95>>,
    <<"000021", 92>>, <<"000100", 100>>, <<"000101", 96>>, <<"000110", 93>>, <<"000111", 87>>,
    <<"000120", 91>>, <<"000121", 81>>, <<"000200", 93>>, <<"000201", 90>>, <<"000210", 89>>,
    <<"000211", 80>>, <<"000220", 81>>, <<"000221", 68>>, <<"001000", 98>>, <<"001001", 95>>,
    <<"001010", 95>>, <<"001011", 92>>, <<"001020", 90>>, <<"001021", 84>>, <<"001100", 93>>,
    <<"001101", 92>>, <<"001110", 89>>, <<"001111", 81>>, <<"001120", 81>>, <<"001121", 65>>,
    <<"001200", 88>>, <<"001201", 80>>, <<"001210", 78>>, <<"001211", 70>>, <<"001220", 69>>,
    <<"001221", 48>>, <<"002001", 92>>, <<"002011", 82>>, <<"002021", 72>>, <<"002101", 79>>,
    <<"002111", 69>>, <<"002121", 50>>, <<"002201", 69>>, <<"002211", 55>>, <<"002221", 27>>,
    <<"010000", 99>>, <<"010001", 97>>, <<"010010", 95>>, <<"010011", 92>>, <<"010020", 92>>,
    <<"010021", 85>>, <<"010100", 95>>, <<"010101", 91>>, <<"010110", 90>>, <<"010111", 83>>,
    <<"010120", 84>>, <<"010121", 71>>, <<"010200", 92>>, <<"010201", 81>>, <<"010210", 82>>,
    <<"010211", 71>>, <<"010220", 72>>, <<"010221", 53>>, <<"011000", 95>>, <<"011001", 93>>,
    <<"011010", 92>>, <<"011011", 85>>, <<"011020", 85>>, <<"011021", 73>>, <<"011100", 92>>,
    <<"011101", 82>>, <<"011110", 80>>, <<"011111", 72>>, <<"011120", 70>>, <<"011121", 59>>,
    <<"011200", 84>>, <<"011201", 70>>, <<"011210", 71>>, <<"011211", 52>>, <<"011220", 50>>,
    <<"011221", 30>>, <<"012001", 86>>, <<"012011", 75>>, <<"012021", 52>>, <<"012101", 71>>,
    <<"012111", 52>>, <<"012121", 29>>, <<"012201", 63>>, <<"012211", 29>>, <<"012221", 17>>,
    <<"100000", 98>>, <<"100001", 95>>, <<"100010", 94>>, <<"100011", 87>>, <<"100020", 91>>,
    <<"100021", 81>>, <<"100100", 94>>, <<"100101", 89>>, <<"100110", 86>>, <<"100111", 74>>,
    <<"100120", 77>>, <<"100121", 64>>, <<"100200", 87>>, <<"100201", 75>>, <<"100210", 74>>,
    <<"100211", 63>>, <<"100220", 63>>, <<"100221", 49>>, <<"101000", 94>>, <<"101001", 89>>,
    <<"101010", 88>>, <<"101011", 77>>, <<"101020", 76>>, <<"101021", 67>>, <<"101100", 86>>,
    <<"101101", 76>>, <<"101110", 74>>, <<"101111", 58>>, <<"101120", 59>>, <<"101121", 50>>,
    <<"101200", 72>>, <<"101201", 57>>, <<"101210", 57>>, <<"101211", 52>>, <<"101220", 52>>,
    <<"101221", 25>>, <<"102001", 83>>, <<"102011", 70>>, <<"102021", 54>>, <<"102101", 65>>,
    <<"102111", 58>>, <<"102121", 26>>, <<"102201", 53>>, <<"102211", 21>>, <<"102221", 13>>,
    <<"110000", 95>>, <<"110001", 90>>, <<"110010", 88>>, <<"110011", 76>>, <<"110020", 76>>,
    <<"110021", 70>>, <<"110100", 90>>, <<"110101", 77>>, <<"110110", 75>>, <<"110111", 62>>,
    <<"110120", 61>>, <<"110121", 53>>, <<"110200", 77>>, <<"110201", 66>>, <<"110210", 68>>,
    <<"110211", 59>>, <<"110220", 52>>, <<"110221", 30>>, <<"111000", 89>>, <<"111001", 78>>,
    <<"111010", 76>>, <<"111011", 67>>, <<"111020", 62>>, <<"111021", 58>>, <<"111100", 74>>,
    <<"111101", 59>>, <<"111110", 57>>, <<"111111", 57>>, <<"111120", 47>>, <<"111121", 23>>,
    <<"111200", 61>>, <<"111201", 52>>, <<"111210", 57>>, <<"111211", 29>>, <<"111220", 24>>,
    <<"111221", 16>>, <<"112001", 71>>, <<"112011", 59>>, <<"112021", 30>>, <<"112101", 58>>,
    <<"112111", 26>>, <<"112121", 15>>, <<"112201", 23>>, <<"112211", 13>>, <<"112221", 6>>,
    <<"200000", 93>>, <<"200001", 87>>, <<"200010", 86>>, <<"200011", 72>>, <<"200020", 75>>,
    <<"200021", 58>>, <<"200100", 86>>, <<"200101", 74>>, <<"200110", 74>>, <<"200111", 61>>,
    <<"200120", 56>>, <<"200121", 34>>, <<"200200", 70>>, <<"200201", 54>>, <<"200210", 52>>,
    <<"200211", 40>>, <<"200220", 40>>, <<"200221", 22>>, <<"201000", 85>>, <<"201001", 75>>,
    <<"201010", 74>>, <<"201011", 55>>, <<"201020", 62>>, <<"201021", 51>>, <<"201100", 72>>,
    <<"201101", 57>>, <<"201110", 55>>, <<"201111", 41>>, <<"201120", 46>>, <<"201121", 19>>,
    <<"201200", 53>>, <<"201201", 36>>, <<"201210", 34>>, <<"201211", 19>>, <<"201220", 19>>,
    <<"201221", 8>>, <<"202001", 64>>, <<"202011", 51>>, <<"202021", 20>>, <<"202101", 47>>,
    <<"202111", 21>>, <<"202121", 11>>, <<"202201", 24>>, <<"202211", 9>>, <<"202221", 4>>,
    <<"210000", 88>>, <<"210001", 75>>, <<"210010", 73>>, <<"210011", 53>>, <<"210020", 60>>,
    <<"210021", 50>>, <<"210100", 73>>, <<"210101", 55>>, <<"210110", 59>>, <<"210111", 40>>,
    <<"210120", 41>>, <<"210121", 20>>, <<"210200", 54>>, <<"210201", 43>>, <<"210210", 45>>,
    <<"210211", 22>>, <<"210220", 20>>, <<"210221", 11>>, <<"211000", 75>>, <<"211001", 55>>,
    <<"211010", 58>>, <<"211011", 45>>, <<"211020", 40>>, <<"211021", 21>>, <<"211100", 61>>,
    <<"211101", 51>>, <<"211110", 48>>, <<"211111", 18>>, <<"211120", 20>>, <<"211121", 9>>,
    <<"211200", 46>>, <<"211201", 18>>, <<"211210", 17>>, <<"211211", 7>>, <<"211220", 8>>,
    <<"211221", 2>>, <<"212001", 53>>, <<"212011", 24>>, <<"212021", 14>>, <<"212101", 24>>,
    <<"212111", 12>>, <<"212121", 5>>, <<"212201", 10>>, <<"212211", 3>>, <<"212221", 1>>}

\* a table copied with the values of rows 000200 and 000201 in each other's place
LOOKUP_TABLE_transposed ==
    [k \in {r[1] : r \in LOOKUP_ROWS} |->
        (CHOOSE r \in LOOKUP_ROWS :
            r[1] = (IF k = "000200" THEN "000201" ELSE IF k = "000201" THEN "000200" ELSE k))[2]]

\* a table copied without the rows whose EQ5 digit is 2
LOOKUP_TABLE_pruned ==
    [k \in {r[1] : r \in LOOKUP_ROWS} \ {r[1] : r \in {x \in LOOKUP_ROWS : SubSeq(x[1], 5, 5) = "2"}}
        |-> (CHOOSE r \in LOOKUP_ROWS : r[1] = k)[2]]

LOOKUP_TABLE ==
    [k \in {r[1] : r \in LOOKUP_ROWS} |-> (CHOOSE r \in LOOKUP_ROWS : r[1] = k)[2]]

\* severity ordering in steps of 0.1 (lower = more severe)
METRIC_LEVELS ==
    [AV |-> [N |-> 0, A |-> 1, L |-> 2, P |-> 3],
     PR |-> [N |-> 0, L |-> 1, H |-> 2],
     UI |-> [N |-> 0, P |-> 1, A |-> 2],
     AC |-> [L |-> 0, H |-> 1],
     AT |-> [N |-> 0, P |-> 1],
     VC |-> [H |-> 0, L |-> 1, N |-> 2],
     VI |-> [H |-> 0, L |-> 1, N |-> 2],
     VA |-> [H |-> 0, L |-> 1, N |-> 2],
     SC |-> [H |-> 1, L |-> 2, N |-> 3],
     SI |-> [S |-> 0, H |-> 1, L |-> 2, N |-> 3],
     SA |-> [S |-> 0, H |-> 1, L |-> 2, N |-> 3],
     CR |-> [H |-> 0, M |-> 1, L |-> 2],
     IR |-> [H |-> 0, M |-> 1, L |-> 2],
     AR |-> [H |-> 0, M |-> 1, L |-> 2],
     E  |-> [U |-> 2, P |-> 1, A |-> 0]]

\* Object.keys(METRIC_LEVELS), in insertion order
METRIC_LEVEL_KEYS ==
    <<"AV", "PR", "UI", "AC", "AT", "VC", "VI", "VA", "SC", "SI", "SA", "CR", "IR", "AR", "E">>

MAX_COMPOSED ==
    [eq1 |-> (0 :> <<"AV:N/PR:N/UI:N/">>
           @@ 1 :> <<"AV:A/PR:N/UI:N/", "AV:N/PR:L/UI:N/", "AV:N/PR:N/UI:P/">>
           @@ 2 :> <<"AV:P/PR:N/UI:N/", "AV:A/PR:L/UI:P/">>),
     eq2 |-> (0 :> <<"AC:L/AT:N/">>
           @@ 1 :> <<"AC:H/AT:N/", "AC:L/AT:P/">>),
     eq3 |-> (0 :> (0 :> <<"VC:H/VI:H/VA:H/CR:H/IR:H/AR:H/">>
                 @@ 1 :> <<"VC:H/VI:H/VA:L/CR:M/IR:M/AR:H/", "VC:H/VI:H/VA:H/CR:M/IR:M/AR:M/">>)
           @@ 1 :> (0 :> <<"VC:L/VI:H/VA:H/CR:H/IR:H/AR:H/", "VC:H/VI:L/VA:H/CR:H/IR:H/AR:H/">>
                 @@ 1 :> <<"VC:L/VI:H/VA:L/CR:H/IR:M/AR:H/", "VC:L/VI:H/VA:H/CR:H/IR:M/AR:M/",
                           "VC:H/VI:L/VA:H/CR:M/IR:H/AR:M/", "VC:H/VI:L/VA:L/CR:M/IR:H/AR:H/",
                           "VC:L/VI:L/VA:H/CR:H/IR:H/AR:M/">>)
           @@ 2 :> (1 :> <<"VC:L/VI:L/VA:L/CR:H/IR:H/AR:H/">>)),
     eq4 |-> (0 :> <<"SC:H/SI:S/SA:S/">>
           @@ 1 :> <<"SC:H/SI:H/SA:H/">>
           @@ 2 :> <<"SC:L/SI:L/SA:L/">>),
     eq5 |-> (0 :> <<"E:A/">>
           @@ 1 :> <<"E:P/">>
           @@ 2 :> <<"E:U/">>)]

\* max severity depths, in steps of STEP = 0.1
MAX_SEVERITY ==
    [eq1    |-> (0 :> 1 @@ 1 :> 4 @@ 2 :> 5),
     eq2    |-> (0 :> 1 @@ 1 :> 2),
     eq3eq6 |-> (0 :> (0 :> 7 @@ 1 :> 6) @@ 1 :> (0 :> 8 @@ 1 :> 8) @@ 2 :> (1 :> 10)),
     eq4    |-> (0 :> 6 @@ 1 :> 5 @@ 2 :> 4),
     eq5    |-> (0 :> 1 @@ 1 :> 1 @@ 2 :> 1)]

(***************************************************************************)
(* String helpers (String.prototype.indexOf, slice, startsWith, trim, ...) *)
(***************************************************************************)
RECURSIVE IndexFrom(_, _, _)
\* str.indexOf(pat, i): 0-based position of the first occurrence at or after i, else -1
IndexFrom(str, pat, i) ==
    IF i + Len(pat) > Len(str) THEN -1
    ELSE IF SubSeq(str, i + 1, i + Len(pat)) = pat THEN i
    ELSE IndexFrom(str, pat, i + 1)

IndexOf(str, pat) == IndexFrom(str, pat, 0)

\* str.slice(from) and str.slice(from, to), 0-based, to exclusive
SliceFrom(str, from) == SubSeq(str, from + 1, Len(str))
Slice(str, from, to) == SubSeq(str, from + 1, to)

\* a prefix test that compares only the scheme name, not the version
StartsWith_loose(str, prefix) ==
    Len(str) >= 5 /\ SubSeq(str, 1, 5) = SubSeq(prefix, 1, 5)

StartsWith(str, prefix) ==
    Len(str) >= Len(prefix) /\ SubSeq(str, 1, Len(prefix)) = prefix

\* the characters String.prototype.trim removes that the inputs here can hold
WHITESPACE == {" ", "\t"}

RECURSIVE TrimStart(_)
TrimStart(str) ==
    IF Len(str) > 0 /\ SubSeq(str, 1, 1) \in WHITESPACE THEN TrimStart(Tail(str)) ELSE str

RECURSIVE TrimEnd(_)
TrimEnd(str) ==
    IF Len(str) > 0 /\ SubSeq(str, Len(str), Len(str)) \in WHITESPACE
    THEN TrimEnd(SubSeq(str, 1, Len(str) - 1))
    ELSE str

Trim(str) == TrimEnd(TrimStart(str))

\* str.replace(pat, rep) with a string pattern: the first occurrence only
Replace(str, pat, rep) ==
    LET idx == IndexOf(str, pat)
    IN  IF idx = -1 THEN str
        ELSE Slice(str, 0, idx) \o rep \o SliceFrom(str, idx + Len(pat))

RECURSIVE Split(_, _)
\* str.split(sep) for a non-empty separator
Split(str, sep) ==
    LET idx == IndexOf(str, sep)
    IN  IF idx = -1 THEN <<str>>
        ELSE <<Slice(str, 0, idx)>> \o Split(SliceFrom(str, idx + Len(sep)), sep)

\* arr.includes(x)
Includes(arr, x) == \E i \in 1..Len(arr) : arr[i] = x

(***************************************************************************)
(* Exact fractions <<num, den>>, den > 0, standing for the doubles of the  *)
(* interpolation                                                           *)
(***************************************************************************)
Frac(n, d) == <<n, d>>
FracAdd(a, b) == <<a[1] * b[2] + b[1] * a[2], a[2] * b[2]>>
FracSub(a, b) == <<a[1] * b[2] - b[1] * a[2], a[2] * b[2]>>
FracDivInt(a, n) == <<a[1], a[2] * n>>
FracLess(a, b) == a[1] * b[2] < b[1] * a[2]
FracMax(a, b) == IF FracLess(a, b) THEN b ELSE a
FracMin(a, b) == IF FracLess(b, a) THEN b ELSE a

(***************************************************************************)
(* Internal helpers                                                        *)
(***************************************************************************)
\* EPSILON = 10^-6, kept as its inverse
EPSILON_INV == 1000000

\* Math.round((value + EPSILON) * 10) / 10 for value = x tenths, x a fraction >= 0.
\* Math.round(y) is floor(y + 1/2); the result is a whole number of tenths.
\* rounding with Math.floor where the code has Math.round
roundHalfUp_floor(x) == x[1] \div x[2]

roundHalfUp(x) ==
    LET t == 2 * x[1] + x[2]
        q == t \div (2 * x[2])
        r == t % (2 * x[2])
    IN  IF (2 * x[2] - r) * (EPSILON_INV \div 20) <= x[2] THEN q + 1 ELSE q

\* a resolver that prefers the raw value and consults the modified metric only
\* when the raw one is absent or X
effectiveValue_raw_first(metrics, metric) ==
    LET worstCase == [E |-> "A", CR |-> "H", IR |-> "H", AR |-> "H"]
        modified == "M" \o metric
    IN  IF Has(metrics, metric) /\ metrics[metric] # "X"
        THEN metrics[metric]
        ELSE IF Has(metrics, modified) /\ metrics[modified] # "X"
        THEN metrics[modified]
        ELSE IF Has(worstCase, metric) THEN worstCase[metric]
        ELSE IF Truthy(CVSS4_DEFAULTS, metric) THEN CVSS4_DEFAULTS[metric]
        ELSE "N"

\* the resolver with least-severe instead of worst-case defaults for E, CR, IR, AR
effectiveValue_lenient(metrics, metric) ==
    LET bestCase == [E |-> "U", CR |-> "L", IR |-> "L", AR |-> "L"]
        modified == "M" \o metric
    IN  IF Has(metrics, modified) /\ metrics[modified] # "X"
        THEN metrics[modified]
        ELSE IF ~Has(metrics, metric) \/ metrics[metric] = "X"
             THEN IF Has(bestCase, metric) THEN bestCase[metric]
                  ELSE IF Truthy(CVSS4_DEFAULTS, metric) THEN CVSS4_DEFAULTS[metric]
                  ELSE "N"
             ELSE metrics[metric]

effectiveValue(metrics, metric) ==
    LET worstCase == [E |-> "A", CR |-> "H", IR |-> "H", AR |-> "H"]
        modified == "M" \o metric
    IN  IF Has(metrics, modified) /\ metrics[modified] # "X"
        THEN metrics[modified]
        ELSE IF ~Has(metrics, metric) \/ metrics[metric] = "X"
             THEN IF Has(worstCase, metric) THEN worstCase[metric]
                  ELSE IF Truthy(CVSS4_DEFAULTS, metric) THEN CVSS4_DEFAULTS[metric]
                  ELSE "N"
             ELSE metrics[metric]

\* the six digits eq1..eq6 of the MacroVector, before they are joined
\* a classifier whose EQ4 grades the subsequent-system impacts like EQ3 grades the
\* vulnerable-system ones, without the safety flags
macroDigits_no_safety(metrics) ==
    LET AV == effectiveValue(metrics, "AV")
        PR == effectiveValue(metrics, "PR")
        UI == effectiveValue(metrics, "UI")
        AC == effectiveValue(metrics, "AC")
        AT == effectiveValue(metrics, "AT")
        VC == effectiveValue(metrics, "VC")
        VI == effectiveValue(metrics, "VI")
        VA == effectiveValue(metrics, "VA")
        SC == effectiveValue(metrics, "SC")
        SI == effectiveValue(metrics, "SI")
        SA == effectiveValue(metrics, "SA")
        E  == effectiveValue(metrics, "E")
        CR == effectiveValue(metrics, "CR")
        IR == effectiveValue(metrics, "IR")
        AR == effectiveValue(metrics, "AR")
        MSI == IF Truthy(metrics, "MSI") THEN metrics["MSI"] ELSE "X"
        MSA == IF Truthy(metrics, "MSA") THEN metrics["MSA"] ELSE "X"
        eq1 == IF AV = "N" /\ PR = "N" /\ UI = "N" THEN 0
               ELSE IF (AV = "N" \/ PR = "N" \/ UI = "N")
                       /\ ~(AV = "N" /\ PR = "N" /\ UI = "N") /\ AV # "P" THEN 1
               ELSE 2
        eq2 == IF AC = "L" /\ AT = "N" THEN 0 ELSE 1
        eq3 == IF VC = "H" /\ VI = "H" THEN 0
               ELSE IF VC = "H" \/ VI = "H" \/ VA = "H" THEN 1
               ELSE 2
        eq4 == IF SC = "H" \/ SI = "H" \/ SA = "H" THEN 0
               ELSE IF SC = "L" \/ SI = "L" \/ SA = "L" THEN 1
               ELSE 2
        eq5 == IF E = "A" THEN 0 ELSE IF E = "P" THEN 1 ELSE 2
        eq6 == IF (CR = "H" /\ VC = "H") \/ (IR = "H" /\ VI = "H") \/ (AR = "H" /\ VA = "H")
               THEN 0 ELSE 1
    IN  <<eq1, eq2, eq3, eq4, eq5, eq6>>

macroDigits(metrics) ==
    LET AV == effectiveValue(metrics, "AV")
        PR == effectiveValue(metrics, "PR")
        UI == effectiveValue(metrics, "UI")
        AC == effectiveValue(metrics, "AC")
        AT == effectiveValue(metrics, "AT")
        VC == effectiveValue(metrics, "VC")
        VI == effectiveValue(metrics, "VI")
        VA == effectiveValue(metrics, "VA")
        SC == effectiveValue(metrics, "SC")
        SI == effectiveValue(metrics, "SI")
        SA == effectiveValue(metrics, "SA")
        E  == effectiveValue(metrics, "E")
        CR == effectiveValue(metrics, "CR")
        IR == effectiveValue(metrics, "IR")
        AR == effectiveValue(metrics, "AR")
        MSI == IF Truthy(metrics, "MSI") THEN metrics["MSI"] ELSE "X"
        MSA == IF Truthy(metrics, "MSA") THEN metrics["MSA"] ELSE "X"
        eq1 == IF AV = "N" /\ PR = "N" /\ UI = "N" THEN 0
               ELSE IF (AV = "N" \/ PR = "N" \/ UI = "N")
                       /\ ~(AV = "N" /\ PR = "N" /\ UI = "N") /\ AV # "P" THEN 1
               ELSE 2
        eq2 == IF AC = "L" /\ AT = "N" THEN 0 ELSE 1
        eq3 == IF VC = "H" /\ VI = "H" THEN 0
               ELSE IF VC = "H" \/ VI = "H" \/ VA = "H" THEN 1
               ELSE 2
        eq4 == IF MSI = "S" \/ MSA = "S" THEN 0
               ELSE IF SC = "H" \/ SI = "H" \/ SA = "H" THEN 1
               ELSE 2
        eq5 == IF E = "A" THEN 0 ELSE IF E = "P" THEN 1 ELSE 2
        eq6 == IF (CR = "H" /\ VC = "H") \/ (IR = "H" /\ VI = "H") \/ (AR = "H" /\ VA = "H")
               THEN 0 ELSE 1
    IN  <<eq1, eq2, eq3, eq4, eq5, eq6>>

\* `${eq1}${eq2}${eq3}${eq4}${eq5}${eq6}`
MacroKey(d) ==
    ToString(d[1]) \o ToString(d[2]) \o ToString(d[3]) \o ToString(d[4])
        \o ToString(d[5]) \o ToString(d[6])

macroVector(metrics) == MacroKey(macroDigits(metrics))

\* Number(c) for a one-digit string
DigitValue(c) == CHOOSE n \in 0..9 : ToString(n) = c

\* mv.split('').map(Number)
SplitDigits(mv) == [i \in 1..Len(mv) |-> DigitValue(SubSeq(mv, i, i))]

extractFromStr(metric, str) ==
    LET idx == IndexOf(str, metric \o ":")
    IN  IF idx = -1 THEN NoString
        ELSE LET rest == SliceFrom(str, idx + Len(metric) + 1)
                 slashIdx == IndexOf(rest, "/")
             IN  IF slashIdx >= 0 THEN Str(Slice(rest, 0, slashIdx)) ELSE Str(rest)

\* METRIC_LEVELS[metric][a] - METRIC_LEVELS[metric][b]; an undefined operand gives NaN
LevelDiff(metric, a, b) ==
    IF Has(METRIC_LEVELS[metric], a) /\ Has(METRIC_LEVELS[metric], b)
    THEN Num(METRIC_LEVELS[metric][a] - METRIC_LEVELS[metric][b])
    ELSE NaN

\* MAX_COMPOSED.eq3[eq3]?.[eq6] ?? []
MaxComposedEq3(eq3, eq6) ==
    IF eq3 \in DOMAIN MAX_COMPOSED.eq3 /\ eq6 \in DOMAIN MAX_COMPOSED.eq3[eq3]
    THEN MAX_COMPOSED.eq3[eq3][eq6]
    ELSE <<>>

\* the five nested loops: every concatenation a + b + c + d + e, first list outermost
MaxVectors(eqMaxes) ==
    LET n2 == Len(eqMaxes[2])
        n3 == Len(eqMaxes[3])
        n4 == Len(eqMaxes[4])
        n5 == Len(eqMaxes[5])
        total == Len(eqMaxes[1]) * n2 * n3 * n4 * n5
    IN  [i \in 1..total |->
            LET j == i - 1
            IN  eqMaxes[1][(j \div (n2 * n3 * n4 * n5)) + 1]
                    \o eqMaxes[2][((j \div (n3 * n4 * n5)) % n2) + 1]
                    \o eqMaxes[3][((j \div (n4 * n5)) % n3) + 1]
                    \o eqMaxes[4][((j \div n5) % n4) + 1]
                    \o eqMaxes[5][(j % n5) + 1]]

\* every string the nested loops of calculateScore can hand to severityDistances
ALL_MAX_VECTORS ==
    UNION {
        LET mvs == MaxVectors(<<MAX_COMPOSED.eq1[e[1]], MAX_COMPOSED.eq2[e[2]],
                                MaxComposedEq3(e[3], e[6]), MAX_COMPOSED.eq4[e[4]],
                                MAX_COMPOSED.eq5[e[5]]>>)
        IN  {mvs[i] : i \in 1..Len(mvs)}
        : e \in (0..2) \X (0..1) \X (0..2) \X (0..2) \X (0..2) \X (0..1) }

\* extractFromStr evaluated once for each of these strings and each metric
EXTRACTED ==
    [str \in ALL_MAX_VECTORS |->
        [metric \in DOMAIN METRIC_LEVELS |-> extractFromStr(metric, str)]]

severityDistances(metrics, maxVectorStr) ==
    LET maxVal == IF maxVectorStr \in DOMAIN EXTRACTED
                  THEN EXTRACTED[maxVectorStr]
                  ELSE [metric \in DOMAIN METRIC_LEVELS |->
                           extractFromStr(metric, maxVectorStr)]
        present == {metric \in DOMAIN METRIC_LEVELS : maxVal[metric].t = "string"}
    IN  [metric \in present |->
            LevelDiff(metric, effectiveValue(metrics, metric), maxVal[metric].s)]

\* Object.values(d).every(v => v >= 0); NaN >= 0 is false
AllNonNegative(d) == \A k \in DOMAIN d : d[k].t = "number" /\ d[k].v >= 0

Undefined == [t |-> "undefined", v |-> 0]

\* a lookup whose key has the EQ4 and EQ5 digits in each other's place
Lookup_eq45(key) ==
    LET k == SubSeq(key, 1, 3) \o SubSeq(key, 5, 5) \o SubSeq(key, 4, 4) \o SubSeq(key, 6, 6)
    IN  IF k \in DOMAIN LOOKUP_TABLE THEN Num(LOOKUP_TABLE[k]) ELSE Undefined

\* LOOKUP_TABLE[key]
Lookup(key) == IF key \in DOMAIN LOOKUP_TABLE THEN Num(LOOKUP_TABLE[key]) ELSE Undefined

\* value - next, with value a number: NaN when next is undefined
Minus(value, next) == IF next.t = "number" THEN Num(value - next.v) ELSE NaN

\* a neighbour of the coupled axis that steps EQ6 alone whenever eq6 = 0
ScoreEq3Eq6Next_eq6_first(d) ==
    IF d[6] = 0 THEN Lookup(MacroKey([d EXCEPT ![6] = d[6] + 1]))
    ELSE IF d[3] \in {0, 1} THEN Lookup(MacroKey([d EXCEPT ![3] = d[3] + 1]))
    ELSE Lookup(MacroKey([d EXCEPT ![3] = d[3] + 1, ![6] = d[6] + 1]))

\* the neighbour score of the coupled EQ3/EQ6 axis
ScoreEq3Eq6Next(d) ==
    LET eq3 == d[3]
        eq6 == d[6]
        step3 == Lookup(MacroKey([d EXCEPT ![3] = eq3 + 1]))
        step6 == Lookup(MacroKey([d EXCEPT ![6] = eq6 + 1]))
    IN  IF eq3 = 1 /\ eq6 = 1 THEN step3
        ELSE IF eq3 = 0 /\ eq6 = 1 THEN step3
        ELSE IF eq3 = 1 /\ eq6 = 0 THEN step6
        ELSE IF eq3 = 0 /\ eq6 = 0
             THEN \* Math.max(left ?? -Infinity, right ?? -Infinity), undefined if not finite
                  IF step6.t = "number" /\ step3.t = "number"
                  THEN Num(IF step6.v >= step3.v THEN step6.v ELSE step3.v)
                  ELSE IF step6.t = "number" THEN step6
                  ELSE IF step3.t = "number" THEN step3
                  ELSE Undefined
        ELSE Lookup(MacroKey([d EXCEPT ![3] = eq3 + 1, ![6] = eq6 + 1]))

\* a search that tries the first max vector only
FirstFit_first_only(metrics, maxVectors, i) ==
    IF i > Len(maxVectors) THEN 0
    ELSE IF AllNonNegative(severityDistances(metrics, maxVectors[i])) THEN i
    ELSE 0

RECURSIVE FirstFit(_, _, _)
\* index of the first max vector from position i on whose distances are all >= 0, else 0
FirstFit(metrics, maxVectors, i) ==
    IF i > Len(maxVectors) THEN 0
    ELSE IF AllNonNegative(severityDistances(metrics, maxVectors[i])) THEN i
    ELSE FirstFit(metrics, maxVectors, i + 1)

\* MAX_SEVERITY.eq3eq6[eq3]?.[eq6] * STEP, in steps; NaN when the entry is missing
MaxSevEq3Eq6(eq3, eq6) ==
    IF eq3 \in DOMAIN MAX_SEVERITY.eq3eq6 /\ eq6 \in DOMAIN MAX_SEVERITY.eq3eq6[eq3]
    THEN Num(MAX_SEVERITY.eq3eq6[eq3][eq6])
    ELSE NaN

\* the locals of calculateScore that the properties read, for a call that returns early
NoSteps ==
    [consulted |-> FALSE, mv |-> "", value |-> Undefined, fallback |-> FALSE,
     n |-> 0, mean |-> Frac(0, 1), raw |-> Frac(0, 1),
     avail |-> <<NaN, NaN, NaN, NaN, NaN>>, dist |-> <<0, 0, 0, 0>>]

\* the short-circuit reading the raw metrics instead of the effective values
NoImpact_raw(metrics) ==
    LET impactMetrics == <<"VC", "VI", "VA", "SC", "SI", "SA">>
    IN  \A i \in 1..Len(impactMetrics) :
            Has(metrics, impactMetrics[i]) /\ metrics[impactMetrics[i]] = "N"

\* impactMetrics.every(m => effectiveValue(metrics, m) === 'N')
NoImpact(metrics) ==
    LET impactMetrics == <<"VC", "VI", "VA", "SC", "SI", "SA">>
    IN  \A i \in 1..Len(impactMetrics) : effectiveValue(metrics, impactMetrics[i]) = "N"

\* the next-lower MacroVector scores: <<eq1, eq2, eq3eq6, eq4, eq5>>
NextScores(d) ==
    <<Lookup(MacroKey([d EXCEPT ![1] = d[1] + 1])),
      Lookup(MacroKey([d EXCEPT ![2] = d[2] + 1])),
      ScoreEq3Eq6Next(d),
      Lookup(MacroKey([d EXCEPT ![4] = d[4] + 1])),
      Lookup(MacroKey([d EXCEPT ![5] = d[5] + 1]))>>

\* all combinations of the max-severity vectors of the bucket
BucketMaxVectors(d) ==
    MaxVectors(<<MAX_COMPOSED.eq1[d[1]], MAX_COMPOSED.eq2[d[2]],
                 MaxComposedEq3(d[3], d[6]), MAX_COMPOSED.eq4[d[4]],
                 MAX_COMPOSED.eq5[d[5]]>>)

\* current severity distances per EQ group, in steps: <<d_eq1, d_eq2, d_eq3eq6, d_eq4>>
GroupDistances(distances) ==
    LET D(k) == IF Has(distances, k) THEN distances[k].v ELSE 0
    IN  <<D("AV") + D("PR") + D("UI"),
          D("AC") + D("AT"),
          D("VC") + D("VI") + D("VA") + D("CR") + D("IR") + D("AR"),
          D("SC") + D("SI") + D("SA")>>

\* available distances (value - next) per EQ: <<eq1, eq2, eq3eq6, eq4, eq5>>
Available(value, next) == [i \in 1..5 |-> Minus(value, next[i])]

\* max severity depths, in steps: <<eq1, eq2, eq3eq6, eq4>>
MaxSeverities(d) ==
    <<Num(MAX_SEVERITY.eq1[d[1]]), Num(MAX_SEVERITY.eq2[d[2]]),
      MaxSevEq3Eq6(d[3], d[6]), Num(MAX_SEVERITY.eq4[d[4]])>>

\* the guards of the five "if (!isNaN(avail...))" blocks
AxisOn(avail, maxSev) ==
    <<avail[1].t # "NaN",
      avail[2].t # "NaN",
      avail[3].t # "NaN" /\ maxSev[3].t = "number" /\ maxSev[3].v # 0,
      avail[4].t # "NaN",
      avail[5].t # "NaN">>

\* avail * (d / maxSev) for the axes whose block ran, else the initial 0; as
\* fractions of a tenth.  The EQ5 block adds nothing: norm_eq5 stays 0.
Norms(on, avail, dist, maxSev) ==
    <<IF on[1] THEN Frac(avail[1].v * dist[1], maxSev[1].v) ELSE Frac(0, 1),
      IF on[2] THEN Frac(avail[2].v * dist[2], maxSev[2].v) ELSE Frac(0, 1),
      IF on[3] THEN Frac(avail[3].v * dist[3], maxSev[3].v) ELSE Frac(0, 1),
      IF on[4] THEN Frac(avail[4].v * dist[4], maxSev[4].v) ELSE Frac(0, 1),
      Frac(0, 1)>>

\* a count that leaves the EQ5 block out
CountOn_without_eq5(on) == Cardinality({i \in 1..4 : on[i]})

\* n after the five blocks
CountOn(on) == Cardinality({i \in 1..5 : on[i]})

MeanDistance(n, norm) ==
    IF n = 0 THEN Frac(0, 1)
    ELSE FracDivInt(FracAdd(FracAdd(FracAdd(FracAdd(norm[1], norm[2]), norm[3]),
                                    norm[4]), norm[5]), n)

\* Math.max(0, Math.min(10, x)), in tenths
Clamp(x) == FracMax(Frac(0, 1), FracMin(Frac(100, 1), x))

\* the tail of calculateScore adding the mean distance instead of subtracting it
Interpolated_added(base, value, on, avail, dist, mean) ==
    [base EXCEPT !.n = CountOn(on), !.mean = mean,
                 !.raw = FracAdd(Frac(value, 1), mean),
                 !.avail = avail, !.dist = dist]
        @@ [ret |-> Num(roundHalfUp(Clamp(FracAdd(Frac(value, 1), mean))))]

\* the tail of calculateScore, from the distances found to the rounded score
Interpolated(base, value, on, avail, dist, mean) ==
    [base EXCEPT !.n = CountOn(on), !.mean = mean,
                 !.raw = FracSub(Frac(value, 1), mean),
                 !.avail = avail, !.dist = dist]
        @@ [ret |-> Num(roundHalfUp(Clamp(FracSub(Frac(value, 1), mean))))]

Interpolate(base, value, d, distances, avail) ==
    Interpolated(base, value, AxisOn(avail, MaxSeverities(d)), avail,
                 GroupDistances(distances),
                 MeanDistance(CountOn(AxisOn(avail, MaxSeverities(d))),
                              Norms(AxisOn(avail, MaxSeverities(d)), avail,
                                    GroupDistances(distances), MaxSeverities(d))))

\* the part of calculateScore after the lookup succeeded; fit is the index of the
\* first max vector whose distances are all >= 0, or 0
ScoreInBucket(metrics, base, value, d, maxVectors, fit) ==
    IF fit = 0
    THEN [base EXCEPT !.fallback = TRUE] @@ [ret |-> Num(value)]
    ELSE Interpolate(base, value, d, severityDistances(metrics, maxVectors[fit]),
                     Available(value, NextScores(d)))

ScoreWithValue(metrics, mv, value) ==
    IF value.t = "undefined"
    THEN [NoSteps EXCEPT !.consulted = TRUE, !.mv = mv] @@ [ret |-> Null]
    ELSE ScoreInBucket(metrics,
                       [NoSteps EXCEPT !.consulted = TRUE, !.mv = mv, !.value = value],
                       value.v, SplitDigits(mv), BucketMaxVectors(SplitDigits(mv)),
                       FirstFit(metrics, BucketMaxVectors(SplitDigits(mv)), 1))

ScoreWithMacro(metrics, mv) == ScoreWithValue(metrics, mv, Lookup(mv))

\* calculateScore with its locals: ret is the returned value
calculateSteps(metrics) ==
    IF NoImpact(metrics)
    THEN NoSteps @@ [ret |-> Num(0)]
    ELSE ScoreWithMacro(metrics, macroVector(metrics))

calculateScore(metrics) == calculateSteps(metrics).ret

(***************************************************************************)
(* Public API                                                              *)
(***************************************************************************)
\* severity labels; NoLabel is the null returned for a missing score
NoLabel == "null"

\* thresholds compared with > where the code has >=
scoreToSeverity_exclusive(score) ==
    IF score.t # "number" THEN NoLabel
    ELSE IF score.v > 90 THEN "CRITICAL"
    ELSE IF score.v > 70 THEN "HIGH"
    ELSE IF score.v > 40 THEN "MEDIUM"
    ELSE IF score.v > 0 THEN "LOW"
    ELSE "INFO"

scoreToSeverity(score) ==
    IF score.t # "number" THEN NoLabel
    ELSE IF score.v >= 90 THEN "CRITICAL"
    ELSE IF score.v >= 70 THEN "HIGH"
    ELSE IF score.v >= 40 THEN "MEDIUM"
    ELSE IF score.v > 0 THEN "LOW"
    ELSE "INFO"

RECURSIVE Join(_, _)
\* parts.join(sep)
Join(parts, sep) ==
    IF Len(parts) = 0 THEN ""
    ELSE IF Len(parts) = 1 THEN parts[1]
    ELSE parts[1] \o sep \o Join(Tail(parts), sep)

\* a builder that ignores the supplied values and always emits the defaults
buildVector_defaults(metrics) ==
    LET parts == [i \in 1..Len(BASE_METRIC_ORDER) |->
                    BASE_METRIC_ORDER[i] \o ":" \o CVSS4_DEFAULTS[BASE_METRIC_ORDER[i]]]
    IN  "CVSS:4.0/" \o Join(parts, "/")

\* a builder without the fallback to the defaults: a missing metric is
\* interpolated into the template as the text "undefined"
buildVector_unfilled(metrics) ==
    LET parts == [i \in 1..Len(BASE_METRIC_ORDER) |->
                    BASE_METRIC_ORDER[i] \o ":" \o
                        (IF Has(metrics, BASE_METRIC_ORDER[i])
                         THEN metrics[BASE_METRIC_ORDER[i]] ELSE "undefined")]
    IN  "CVSS:4.0/" \o Join(parts, "/")

buildVector(metrics) ==
    LET parts == [i \in 1..Len(BASE_METRIC_ORDER) |->
                    LET k == BASE_METRIC_ORDER[i]
                    IN  k \o ":" \o (IF Truthy(metrics, k) THEN metrics[k]
                                     ELSE CVSS4_DEFAULTS[k])]
    IN  "CVSS:4.0/" \o Join(parts, "/")

RECURSIVE CollectTokens(_, _, _)
\* the loop over parts: metrics[k] = v for every part whose first two
\* colon-separated fields are both non-empty; a later part overwrites an earlier one
CollectTokens(parts, i, metrics) ==
    IF i > Len(parts) THEN metrics
    ELSE LET fields == Split(parts[i], ":")
             k == fields[1]
             hasV == Len(fields) >= 2
         IN  IF k # "" /\ hasV /\ fields[2] # ""
             THEN CollectTokens(parts, i + 1,
                      [x \in (DOMAIN metrics) \cup {k} |->
                          IF x = k THEN fields[2] ELSE metrics[x]])
             ELSE CollectTokens(parts, i + 1, metrics)

RECURSIVE ValidateBase_strict(_, _)
\* a validation loop that also checks the optional threat metric E against its enumeration
ValidateBase_strict(metrics, i) ==
    IF Has(metrics, "E") /\ metrics["E"] \notin {"X", "A", "P", "U"}
    THEN [metrics |-> Obj(metrics), isValid |-> FALSE,
          error |-> Str("Invalid value for E: " \o metrics["E"])]
    ELSE IF i > Len(BASE_METRIC_ORDER)
    THEN [metrics |-> Obj(metrics), isValid |-> TRUE, error |-> NoString]
    ELSE LET key == BASE_METRIC_ORDER[i]
         IN  IF ~Truthy(metrics, key)
             THEN [metrics |-> Obj(metrics), isValid |-> FALSE,
                   error |-> Str("Missing metric: " \o key)]
             ELSE IF ~Includes(CVSS4_METRICS[key], metrics[key])
             THEN [metrics |-> Obj(metrics), isValid |-> FALSE,
                   error |-> Str("Invalid value for " \o key \o ": " \o metrics[key])]
             ELSE ValidateBase_strict(metrics, i + 1)

RECURSIVE ValidateBase_missing_first(_, _)
\* a validation that looks for missing metrics in a first pass and for
\* out-of-domain values only when none is missing
ValidateBase_missing_first(metrics, i) ==
    LET missing == {j \in i..Len(BASE_METRIC_ORDER) : ~Truthy(metrics, BASE_METRIC_ORDER[j])}
    IN  IF missing # {}
        THEN [metrics |-> Obj(metrics), isValid |-> FALSE,
              error |-> Str("Missing metric: "
                  \o BASE_METRIC_ORDER[CHOOSE j \in missing : \A m \in missing : j <= m])]
        ELSE IF i > Len(BASE_METRIC_ORDER)
        THEN [metrics |-> Obj(metrics), isValid |-> TRUE, error |-> NoString]
        ELSE IF ~Includes(CVSS4_METRICS[BASE_METRIC_ORDER[i]], metrics[BASE_METRIC_ORDER[i]])
        THEN [metrics |-> Obj(metrics), isValid |-> FALSE,
              error |-> Str("Invalid value for " \o BASE_METRIC_ORDER[i] \o ": "
                            \o metrics[BASE_METRIC_ORDER[i]])]
        ELSE ValidateBase_missing_first(metrics, i + 1)

RECURSIVE ValidateBase(_, _)
\* the loop over BASE_METRIC_ORDER from position i on
ValidateBase(metrics, i) ==
    IF i > Len(BASE_METRIC_ORDER)
    THEN [metrics |-> Obj(metrics), isValid |-> TRUE, error |-> NoString]
    ELSE LET key == BASE_METRIC_ORDER[i]
             validVals == IF Has(CVSS4_METRICS, key) THEN CVSS4_METRICS[key] ELSE <<>>
         IN  IF ~Truthy(metrics, key)
             THEN [metrics |-> Obj(metrics), isValid |-> FALSE,
                   error |-> Str("Missing metric: " \o key)]
             ELSE IF Len(validVals) # 0 /\ ~Includes(validVals, metrics[key])
             THEN [metrics |-> Obj(metrics), isValid |-> FALSE,
                   error |-> Str("Invalid value for " \o key \o ": " \o metrics[key])]
             ELSE ValidateBase(metrics, i + 1)

parseVector(vectorString) ==
    IF Falsy(vectorString) \/ vectorString.t # "string"
    THEN [metrics |-> NoObject, isValid |-> FALSE, error |-> Str("Empty vector")]
    ELSE LET trimmed == Trim(vectorString.s)
         IN  IF ~StartsWith(trimmed, "CVSS:4.0/")
             THEN [metrics |-> NoObject, isValid |-> FALSE,
                   error |-> Str("Must start with CVSS:4.0/")]
             ELSE LET parts == Split(Replace(trimmed, "CVSS:4.0/", ""), "/")
                      metrics == CollectTokens(parts, 1, <<>>)
                  IN  ValidateBase(metrics, 1)

\* a scorer that ignores isValid whenever the parser handed back a metrics object
vectorToScore_unchecked(vectorString) ==
    LET parsed == parseVector(vectorString)
    IN  IF parsed.metrics.t = "null"
        THEN [score |-> Null, severity |-> NoLabel, isValid |-> FALSE, error |-> parsed.error]
        ELSE LET score == calculateScore(parsed.metrics.o)
             IN  [score |-> score, severity |-> scoreToSeverity(score),
                  isValid |-> TRUE, error |-> NoString]

vectorToScore(vectorString) ==
    LET parsed == parseVector(vectorString)
    IN  IF ~parsed.isValid
        THEN [score |-> Null, severity |-> NoLabel, isValid |-> FALSE, error |-> parsed.error]
        ELSE LET score == calculateScore(parsed.metrics.o)
             IN  IF score.t = "null"
                 THEN [score |-> Null, severity |-> NoLabel, isValid |-> FALSE,
                       error |-> Str("Could not calculate score")]
                 ELSE [score |-> score, severity |-> scoreToSeverity(score),
                       isValid |-> TRUE, error |-> NoString]

\* the object metricsToScore returns, plus the locals of its calculateScore call
ScoreResult(vector, st) ==
    [score |-> st.ret, severity |-> scoreToSeverity(st.ret), vector |-> vector, steps |-> st]

metricsToScore(metrics) == ScoreResult(buildVector(metrics), calculateSteps(metrics))

(***************************************************************************)
(* Inputs                                                                  *)
(***************************************************************************)
\* how many keys of an input may differ from the all-default metrics object
MaxEdits == 2

BASE_KEYS == {BASE_METRIC_ORDER[i] : i \in 1..Len(BASE_METRIC_ORDER)}

Options(k) == {CVSS4_METRICS[k][i] : i \in 1..Len(CVSS4_METRICS[k])}

\* values tried for the threat, environmental and modified metrics: the levels the
\* engine knows, the placeholder X, and for some a value outside the enumeration
OPTIONAL_VALUES ==
    [E   |-> {"A", "P", "U", "X", "Z"},
     CR  |-> {"H", "M", "L", "X"},
     IR  |-> {"H", "M", "L"},
     AR  |-> {"H", "M", "L"},
     MAV |-> {"N", "A", "L", "P", "X", "Q"},
     MAC |-> {"L", "H"},
     MAT |-> {"N", "P"},
     MPR |-> {"N", "L", "H"},
     MUI |-> {"N", "P", "A"},
     MVC |-> {"H", "L", "N", "Q"},
     MVI |-> {"H", "L", "N"},
     MVA |-> {"H", "L", "N"},
     MSC |-> {"H", "L", "N"},
     MSI |-> {"S", "H", "L", "N"},
     MSA |-> {"S", "H", "L", "N"}]

OPTIONAL_KEYS == DOMAIN OPTIONAL_VALUES

\* the values an edit can give key k
EditValues(k) ==
    IF k \in BASE_KEYS THEN Options(k) \ {CVSS4_DEFAULTS[k]} ELSE OPTIONAL_VALUES[k]

RECURSIVE SubsetsUpTo(_, _)
\* the subsets of keys with at most n elements
SubsetsUpTo(keys, n) ==
    IF n = 0 THEN {{}}
    ELSE LET prev == SubsetsUpTo(keys, n - 1)
         IN  prev \cup {s \cup {x} : s \in prev, x \in keys}

\* base with the keys of f set as f says
Override(base, f) ==
    [k \in (DOMAIN base) \cup (DOMAIN f) |-> IF k \in DOMAIN f THEN f[k] ELSE base[k]]

ALL_VALUES == UNION {EditValues(k) : k \in BASE_KEYS \cup OPTIONAL_KEYS}

RECURSIVE EditsOf(_)
\* every way of giving each key of S one of its edit values
EditsOf(S) ==
    IF S = {} THEN {<<>>}
    ELSE LET k == CHOOSE x \in S : TRUE
         IN  {Override(f, k :> v) : f \in EditsOf(S \ {k}), v \in EditValues(k)}

\* the all-default metrics object with at most n of the given keys edited
Edited(keys, n) ==
    UNION {{Override(CVSS4_DEFAULTS, f) : f \in EditsOf(S)} : S \in SubsetsUpTo(keys, n)}

\* x is a value of the metric's enumeration (for a modified metric, of its base metric's)
InEnumeration(metric, x) == x \in DOMAIN METRIC_LEVELS[metric]

\* every metric resolves to a value of its enumeration
EffectiveInDomain(metrics) ==
    \A metric \in DOMAIN METRIC_LEVELS :
        InEnumeration(metric, effectiveValue(metrics, metric))

(***************************************************************************)
(* Spec: the hosting application scores a metrics object, stores the       *)
(* returned vector and later derives score and severity from the stored    *)
(* vector alone                                                            *)
(***************************************************************************)
Init ==
    /\ pc = "call"
    /\ op = "metricsToScore"
    /\ \E S \in SubsetsUpTo(BASE_KEYS \cup OPTIONAL_KEYS, MaxEdits) :
          \E f \in EditsOf(S) : input = Override(CVSS4_DEFAULTS, f)
    /\ result = <<>>
    /\ recheck = <<>>

CallMetricsToScore ==
    /\ pc = "call"
    /\ op = "metricsToScore"
    /\ result' = metricsToScore(input)
    /\ pc' = "scored"
    /\ UNCHANGED <<op, input, recheck>>

RescoreStoredVector ==
    /\ pc = "scored"
    /\ op = "metricsToScore"
    /\ recheck' = vectorToScore(Str(result.vector))
    /\ pc' = "done"
    /\ UNCHANGED <<op, input, result>>

Next == CallMetricsToScore \/ RescoreStoredVector

Spec == Init /\ [][Next]_vars

\* the values the CVSS 4.0 enumeration of an optional key allows besides X
OptionalEnumeration(k) ==
    IF k \in DOMAIN METRIC_LEVELS THEN DOMAIN METRIC_LEVELS[k]
    ELSE IF k \in {"MSI", "MSA"} THEN DOMAIN METRIC_LEVELS[SubSeq(k, 2, 3)]
    ELSE Options(SubSeq(k, 2, 3))

\* an object metricsToScore is meant to accept: the 11 base metrics with values of
\* their enumerations, and optional metrics holding X or a value of theirs
WellFormed(metrics) ==
    /\ BASE_KEYS \subseteq DOMAIN metrics
    /\ \A k \in DOMAIN metrics :
        \/ k \in BASE_KEYS /\ metrics[k] \in Options(k)
        \/ k \in OPTIONAL_KEYS /\ metrics[k] \in OptionalEnumeration(k) \cup {"X"}

(* C1: for every metrics object metricsToScore accepts, the score and severity it
   returns are recomputable from the returned vector alone: vectorToScore of that
   vector is valid and yields the same score and the same severity. *)
C1_RecomputableFromVector ==
    (pc = "done" /\ WellFormed(input)) =>
        /\ recheck.isValid
        /\ recheck.score = result.score
        /\ recheck.severity = result.severity

(* C3: when scoring resolves a metric to an effective value outside the metric's
   enumeration, it produces no numeric score. *)
C3_InvalidValueGivesNoScore ==
    (pc \in {"scored", "done"} /\ ~EffectiveInDomain(input)) => result.score.t # "number"

(***************************************************************************)
(* SpecNoImpact: metricsToScore on objects whose impact metrics all resolve *)
(* to N, under every exploitability, threat and requirement setting, and   *)
(* on a few objects with some impact                                       *)
(***************************************************************************)
EXPLOIT_KEYS == {"AV", "AC", "AT", "PR", "UI"}
IMPACT_KEYS == {"VC", "VI", "VA", "SC", "SI", "SA"}
THREAT_ENV_KEYS == {"E", "CR", "IR", "AR"}

\* every assignment of the exploitability metrics
ExploitProfiles ==
    [AV : Options("AV"), AC : Options("AC"), AT : Options("AT"),
     PR : Options("PR"), UI : Options("UI")]

\* E, CR, IR, AR each absent, X or a level
ThreatEnvProfiles ==
    UNION { {f \in [S -> {"X", "A", "P", "U", "H", "M", "L"}] :
                \A k \in S : f[k] \in DOMAIN METRIC_LEVELS[k] \cup
                                      (IF k = "E" THEN {"X"} ELSE {})}
            : S \in SUBSET THREAT_ENV_KEYS }

\* impact settings that resolve to N everywhere: raw N, or raw values that a
\* modified metric overrides with N
NoImpactProfiles ==
    { [VC |-> "N", VI |-> "N", VA |-> "N", SC |-> "N", SI |-> "N", SA |-> "N"],
      [VC |-> "H", VI |-> "N", VA |-> "N", SC |-> "N", SI |-> "N", SA |-> "L",
       MVC |-> "N", MSA |-> "N"] }

NoImpactInputs ==
    { Override(Override(x, i), t) :
        x \in ExploitProfiles, i \in NoImpactProfiles, t \in ThreatEnvProfiles }

InitNoImpact ==
    /\ pc = "call"
    /\ op = "metricsToScore"
    /\ input \in NoImpactInputs \cup Edited(BASE_KEYS \cup OPTIONAL_KEYS, 1)
    /\ result = <<>>
    /\ recheck = <<>>

SpecNoImpact == InitNoImpact /\ [][CallMetricsToScore]_vars

(* C4: whenever the effective values of VC, VI, VA, SC, SI and SA are all N, the
   score is exactly 0.0 and the severity INFO, whatever AV, AC, AT, PR, UI and
   E, CR, IR, AR are, and the lookup table is not consulted. *)
C4_NoImpactScoresZero ==
    (pc = "scored" /\ \A k \in IMPACT_KEYS : effectiveValue(input, k) = "N") =>
        /\ result.score = Num(0)
        /\ result.severity = "INFO"
        /\ ~result.steps.consulted

\* reached: a physical, high-complexity attack with explicit threat and requirement
\* values, whose raw VC = H is overridden by MVC = N, scored 0.0
C4_Witness ==
    /\ pc = "scored"
    /\ input["AV"] = "P" /\ input["AC"] = "H" /\ input["PR"] = "H"
    /\ Has(input, "E") /\ input["E"] = "U"
    /\ Has(input, "CR") /\ input["CR"] = "L"
    /\ input["VC"] = "H" /\ Has(input, "MVC")
    /\ result.score = Num(0)

(***************************************************************************)
(* The calculator's metric buttons                                         *)
(***************************************************************************)
\* setMetrics(prev => ({ ...prev, [key]: value }))
handleMetric(prev, key, value) == Override(prev, key :> value)

(***************************************************************************)
(* SpecMono: a metrics object is scored, then one impact metric is made    *)
(* one step more severe and the object is scored again                     *)
(***************************************************************************)
\* how many exploitability metrics may differ from their default
MaxExploitEdits == 1

\* every assignment of the six impact metrics
ImpactProfiles ==
    [VC : Options("VC"), VI : Options("VI"), VA : Options("VA"),
     SC : Options("SC"), SI : Options("SI"), SA : Options("SA")]

\* one step towards more severe: N to L, L to H
MoreSevere(v) == IF v = "N" THEN "L" ELSE "H"

InitMono ==
    /\ pc = "call"
    /\ op = "metricsToScore"
    /\ input \in {Override(x, i) : x \in Edited(EXPLOIT_KEYS, MaxExploitEdits),
                                   i \in ImpactProfiles}
    /\ result = <<>>
    /\ recheck = <<>>

RaiseImpact(k) ==
    /\ pc = "scored"
    /\ input[k] # "H"
    /\ recheck' = [key |-> k, value |-> MoreSevere(input[k]),
                   scored |-> metricsToScore(handleMetric(input, k, MoreSevere(input[k])))]
    /\ pc' = "done"
    /\ UNCHANGED <<op, input, result>>

NextMono == CallMetricsToScore \/ \E k \in IMPACT_KEYS : RaiseImpact(k)

SpecMono == InitMono /\ [][NextMono]_vars

(* C5: monotonicity in impact: for every in-domain assignment of the 11 base
   metrics, changing one of VC, VI, VA, SC, SI, SA one step towards more severe
   (N to L, or L to H) never decreases the score metricsToScore returns. *)
C5_ImpactMonotone ==
    pc = "done" =>
        /\ result.score.t = "number"
        /\ recheck.scored.score.t = "number"
        /\ recheck.scored.score.v >= result.score.v

\* reached: raising SA from L to H on an adjacent-network vector raised the score,
\* and raising VC from N to L on a vector with no impact at all raised it from 0.0
C5_Witness ==
    /\ pc = "done"
    /\ \/ /\ recheck.key = "SA" /\ recheck.value = "H" /\ input["AV"] = "A"
          /\ recheck.scored.score.v > result.score.v
       \/ /\ recheck.key = "VC" /\ recheck.value = "L" /\ result.score = Num(0)
          /\ recheck.scored.score.v > 0 /\ input["AC"] = "H"

(***************************************************************************)
(* SpecWorst: a base metrics object is scored without threat and           *)
(* requirement metrics, then again with E, CR, IR and AR given             *)
(***************************************************************************)
\* E, CR, IR and AR all given a level, or all given the placeholder X
GivenThreatEnv ==
    [E : DOMAIN METRIC_LEVELS["E"], CR : DOMAIN METRIC_LEVELS["CR"],
     IR : DOMAIN METRIC_LEVELS["IR"], AR : DOMAIN METRIC_LEVELS["AR"]]
        \cup {[E |-> "X", CR |-> "X", IR |-> "X", AR |-> "X"]}

InitWorst ==
    /\ pc = "call"
    /\ op = "metricsToScore"
    /\ input \in Edited(BASE_KEYS, MaxEdits)
    /\ result = <<>>
    /\ recheck = <<>>

ScoreWithThreatEnv(t) ==
    /\ pc = "scored"
    /\ recheck' = [given |-> t, scored |-> metricsToScore(Override(input, t))]
    /\ pc' = "done"
    /\ UNCHANGED <<op, input, result>>

NextWorst == CallMetricsToScore \/ \E t \in GivenThreatEnv : ScoreWithThreatEnv(t)

SpecWorst == InitWorst /\ [][NextWorst]_vars

(* C6: absent threat and requirement data never understates risk: the score of a
   base assignment with E, CR, IR, AR absent is >= its score with any explicit
   E in {A, P, U} and CR, IR, AR in {H, M, L}; with all four set to X the score
   is the one with all four absent, so the same bound holds from X. *)
C6_AbsentIsWorstCase ==
    pc = "done" =>
        /\ result.score.t = "number"
        /\ recheck.scored.score.t = "number"
        /\ recheck.given["E"] # "X" => result.score.v >= recheck.scored.score.v
        /\ recheck.given["E"] = "X" => result.score.v = recheck.scored.score.v

\* reached: explicit E = U with low requirements scored strictly below the
\* same base vector with nothing given
C6_Witness ==
    /\ pc = "done"
    /\ recheck.given = [E |-> "U", CR |-> "L", IR |-> "L", AR |-> "L"]
    /\ input["VC"] = "H" /\ input["VI"] = "H"
    /\ result.score.v > recheck.scored.score.v

(***************************************************************************)
(* SpecParse: a caller hands a value to parseVector or vectorToScore; an   *)
(* accepted vector is rebuilt with buildVector and parsed again            *)
(***************************************************************************)
\* how many places of a vector string may deviate from a canonical vector
MaxDeviations == 2

\* the canonical vectors the strings are derived from
BaseProfiles ==
    {CVSS4_DEFAULTS,
     [AV |-> "P", AC |-> "H", AT |-> "P", PR |-> "H", UI |-> "A", VC |-> "H",
      VI |-> "L", VA |-> "H", SC |-> "L", SI |-> "H", SA |-> "L"]}

\* a value no base metric's enumeration holds
BadValue == "Q"

\* the token of a dropped base metric
Dropped == ""

\* tokens put before or after the base tokens, with the key and value a
\* KEY:VALUE reading gives them (k = "" for a segment that is not KEY:VALUE)
EXTRA_TOKENS ==
    {[raw |-> "E:P", k |-> "E", v |-> "P"],
     [raw |-> "E:Z", k |-> "E", v |-> "Z"],
     [raw |-> "MSI:S", k |-> "MSI", v |-> "S"],
     [raw |-> "CR:Q", k |-> "CR", v |-> "Q"],
     [raw |-> "junk", k |-> "", v |-> ""],
     [raw |-> ":N", k |-> "", v |-> ""],
     [raw |-> "MAV:", k |-> "", v |-> ""],
     [raw |-> "MVA:H:x", k |-> "", v |-> ""],
     [raw |-> "", k |-> "", v |-> ""]}

PREFIXES == {"CVSS:4.0/", "CVSS:3.1/", "cvss:4.0/", ""}

\* the descriptions of vector strings derived from canonical vector b: surrounding
\* whitespace, prefix, the value of each base metric (Dropped when its token is
\* left out), tokens before and after; the places named deviate from b
Deviated(b, places) ==
    {[lead |-> l, trail |-> t, prefix |-> p, base |-> v, front |-> f, back |-> e] :
        l \in IF "lead" \in places THEN {" "} ELSE {""},
        t \in IF "trail" \in places THEN {"\t"} ELSE {""},
        p \in IF "prefix" \in places THEN PREFIXES \ {"CVSS:4.0/"} ELSE {"CVSS:4.0/"},
        v \in {Override(b, w) : w \in [places \cap BASE_KEYS -> {BadValue, Dropped}]},
        f \in IF "front" \in places THEN {<<x>> : x \in EXTRA_TOKENS} ELSE {<<>>},
        e \in IF "back" \in places THEN {<<x>> : x \in EXTRA_TOKENS} ELSE {<<>>}}

PLACES == {"lead", "trail", "prefix", "front", "back"} \cup BASE_KEYS

RECURSIVE BaseTokens(_, _)
\* the KEY:VALUE tokens of the base metrics of a description from position i on
BaseTokens(desc, i) ==
    IF i > Len(BASE_METRIC_ORDER) THEN <<>>
    ELSE LET k == BASE_METRIC_ORDER[i]
         IN  (IF desc.base[k] = Dropped THEN <<>> ELSE <<k \o ":" \o desc.base[k]>>)
                 \o BaseTokens(desc, i + 1)

\* the string a description stands for
Render(desc) ==
    desc.lead \o desc.prefix
        \o Join([i \in 1..Len(desc.front) |-> desc.front[i].raw]
                    \o BaseTokens(desc, 1)
                    \o [i \in 1..Len(desc.back) |-> desc.back[i].raw], "/")
        \o desc.trail

NoDescription == [lead |-> "", trail |-> "", prefix |-> "", base |-> <<>>,
                  front |-> <<>>, back |-> <<>>]

\* arguments that are not vector strings at all
OtherArguments == {Null, Undefined, Num(0), Num(42), Str(""), Str(" "), Obj(CVSS4_DEFAULTS)}

ParseInputs ==
    {[js |-> Str(Render(d)), isVector |-> TRUE, desc |-> d] :
        d \in UNION {Deviated(b, places) : b \in BaseProfiles,
                                           places \in SubsetsUpTo(PLACES, MaxDeviations)}}
    \cup {[js |-> x, isVector |-> FALSE, desc |-> NoDescription] : x \in OtherArguments}

InitParse ==
    /\ pc = "call"
    /\ op \in {"parseVector", "vectorToScore"}
    /\ input \in ParseInputs
    /\ result = <<>>
    /\ recheck = <<>>

CallParseVector ==
    /\ pc = "call"
    /\ op = "parseVector"
    /\ result' = parseVector(input.js)
    /\ pc' = "parsed"
    /\ UNCHANGED <<op, input, recheck>>

RebuildAndReparse ==
    /\ pc = "parsed"
    /\ result.isValid
    /\ recheck' = [vector |-> buildVector(result.metrics.o),
                   parsed |-> parseVector(Str(buildVector(result.metrics.o)))]
    /\ pc' = "done"
    /\ UNCHANGED <<op, input, result>>

CallVectorToScore ==
    /\ pc = "call"
    /\ op = "vectorToScore"
    /\ result' = vectorToScore(input.js)
    /\ pc' = "done"
    /\ UNCHANGED <<op, input, recheck>>

NextParse == CallParseVector \/ RebuildAndReparse \/ CallVectorToScore

SpecParse == InitParse /\ [][NextParse]_vars

\* what the description of the argument says, independently of the parser
CorrectPrefix == input.isVector /\ input.desc.prefix = "CVSS:4.0/"
Absent(k) == input.desc.base[k] = Dropped
OutOfDomain(k) == ~Absent(k) /\ input.desc.base[k] \notin Options(k)
BaseComplete == \A k \in BASE_KEYS : ~Absent(k) /\ ~OutOfDomain(k)

\* the first base metric in the fixed order that satisfies P
FirstIn(P(_)) ==
    BASE_METRIC_ORDER[CHOOSE i \in 1..Len(BASE_METRIC_ORDER) :
        /\ P(BASE_METRIC_ORDER[i])
        /\ \A j \in 1..(i - 1) : ~P(BASE_METRIC_ORDER[j])]

\* the error text mentions word
Mentions(error, word) == error.t = "string" /\ IndexOf(error.s, word) # -1

SEVERITY_LABELS == {"CRITICAL", "HIGH", "MEDIUM", "LOW", "INFO"}

ValidShape(r) ==
    /\ r.isValid = TRUE
    /\ r.score.t = "number"
    /\ r.severity \in SEVERITY_LABELS
    /\ r.error = NoString

InvalidShape(r) ==
    /\ r.isValid = FALSE
    /\ r.score = Null
    /\ r.severity = NoLabel
    /\ r.error.t = "string" /\ r.error.s # ""

(* C2: every result of vectorToScore has one of exactly two shapes: (isValid,
   numeric score, non-null severity, no error) or (not isValid, null score, null
   severity, non-empty error text); an argument that is empty, not a string, lacks
   the CVSS:4.0/ prefix, misses a base metric or carries an out-of-domain base
   value gets the second shape. *)
C2_TwoResultShapes ==
    (pc = "done" /\ op = "vectorToScore") =>
        /\ ValidShape(result) \/ InvalidShape(result)
        /\ ~(CorrectPrefix /\ BaseComplete) => InvalidShape(result)

\* reached: a vector whose VC token carries an out-of-domain value, and a vector
\* without its SA token, came back without a score and with an error text
C2_Witness ==
    /\ pc = "done" /\ op = "vectorToScore"
    /\ CorrectPrefix
    /\ OutOfDomain("VC") \/ Absent("SA")
    /\ InvalidShape(result)

(* C7: round trip: for every string parseVector accepts, buildVector of the parsed
   metrics assigns each of the 11 base metrics the value the string assigns to it,
   and parsing the rebuilt string is valid and yields the same 11 assignments. *)
C7_RoundTrip ==
    (pc = "done" /\ op = "parseVector") =>
        /\ recheck.vector =
              Render([NoDescription EXCEPT !.prefix = "CVSS:4.0/", !.base = input.desc.base])
        /\ recheck.parsed.isValid
        /\ \A k \in BASE_KEYS :
              /\ Has(recheck.parsed.metrics.o, k)
              /\ recheck.parsed.metrics.o[k] = input.desc.base[k]

\* reached: an accepted string with leading whitespace, non-default base values and
\* an optional token was rebuilt and parsed again
C7_Witness ==
    /\ pc = "done" /\ op = "parseVector"
    /\ input.desc.lead = " "
    /\ input.desc.base["AV"] = "P"
    /\ Len(input.desc.back) = 1 /\ input.desc.back[1].raw = "E:Z"
    /\ recheck.parsed.isValid

(* C8: parseVector returns isValid = false with metrics = null and a format error
   when its argument is empty, not a string, or after trimming does not start with
   the exact prefix CVSS:4.0/; no token of the string is parsed. *)
C8_FormatErrors ==
    (pc = "parsed" /\ ~CorrectPrefix) =>
        /\ result.isValid = FALSE
        /\ result.metrics = NoObject
        /\ result.error = IF input.js.t = "string" /\ input.js.s # ""
                          THEN Str("Must start with CVSS:4.0/")
                          ELSE Str("Empty vector")

\* reached: a complete CVSS:3.1/ vector with leading whitespace was rejected
C8_Witness ==
    /\ pc = "parsed"
    /\ input.isVector /\ input.desc.prefix = "CVSS:3.1/" /\ input.desc.lead = " "
    /\ BaseComplete
    /\ result.isValid = FALSE /\ result.metrics = NoObject

(* C9: for a string with the correct prefix: if any base metric is absent,
   parseVector fails with an error naming the first absent base metric in the
   fixed order; if none is absent but a present base metric's value is outside
   its enumeration, it fails with an error naming that metric and the value. *)
C9_MissingReportedFirst ==
    (pc = "parsed" /\ CorrectPrefix) =>
        /\ (\E k \in BASE_KEYS : Absent(k)) =>
              /\ result.isValid = FALSE
              /\ Mentions(result.error, "Missing")
              /\ Mentions(result.error, FirstIn(Absent))
        /\ ((\A k \in BASE_KEYS : ~Absent(k)) /\ (\E k \in BASE_KEYS : OutOfDomain(k))) =>
              /\ result.isValid = FALSE
              /\ \E k \in BASE_KEYS :
                    /\ OutOfDomain(k)
                    /\ Mentions(result.error, k \o ": " \o input.desc.base[k])

\* base metric k is absent or carries a value outside its enumeration
Defective(k) == Absent(k) \/ OutOfDomain(k)

(* C9 as amended: for a string with the correct prefix in which some base metric
   is absent or carries a value outside its enumeration, parseVector fails with
   an error about the first such metric K in the fixed order: "Missing metric: K"
   if K is absent, "Invalid value for K: V" if K is present with value V. *)
C9_FirstDefectReported ==
    (pc = "parsed" /\ CorrectPrefix /\ ~BaseComplete) =>
        /\ result.isValid = FALSE
        /\ result.error =
              IF Absent(FirstIn(Defective))
              THEN Str("Missing metric: " \o FirstIn(Defective))
              ELSE Str("Invalid value for " \o FirstIn(Defective) \o ": "
                       \o input.desc.base[FirstIn(Defective)])

\* reached: a vector with an out-of-domain AV and no AC token was rejected for
\* its AV value
C9_Witness ==
    /\ pc = "parsed" /\ CorrectPrefix
    /\ OutOfDomain("AV") /\ Absent("AC")
    /\ result.isValid = FALSE
    /\ result.error = Str("Invalid value for AV: Q")

(* C10: for every string with the correct prefix in which all 11 base metrics are
   present with in-domain values, parseVector returns isValid = true and
   error = null whatever extra tokens the string holds; extra threat,
   environmental and modified tokens are copied into metrics unchecked. *)
C10_ExtrasAccepted ==
    (pc = "parsed" /\ CorrectPrefix /\ BaseComplete) =>
        /\ result.isValid = TRUE
        /\ result.error = NoString
        /\ \A i \in 1..Len(input.desc.back) :
              input.desc.back[i].k # "" =>
                  /\ Has(result.metrics.o, input.desc.back[i].k)
                  /\ result.metrics.o[input.desc.back[i].k] = input.desc.back[i].v
        /\ \A i \in 1..Len(input.desc.front) :
              (/\ input.desc.front[i].k # ""
               /\ \A j \in 1..Len(input.desc.back) :
                     input.desc.back[j].k # input.desc.front[i].k) =>
                  /\ Has(result.metrics.o, input.desc.front[i].k)
                  /\ result.metrics.o[input.desc.front[i].k] = input.desc.front[i].v

\* reached: a complete vector carrying CR:Q in front and E:Z behind was accepted
\* with both values in metrics
C10_Witness ==
    /\ pc = "parsed" /\ CorrectPrefix /\ BaseComplete
    /\ Len(input.desc.front) = 1 /\ input.desc.front[1].raw = "CR:Q"
    /\ Len(input.desc.back) = 1 /\ input.desc.back[1].raw = "E:Z"
    /\ result.isValid
    /\ result.metrics.o["CR"] = "Q" /\ result.metrics.o["E"] = "Z"

\* some segment of the string is not of the form KEY:VALUE
HasMalformedToken ==
    \E i \in 1..Len(input.desc.front \o input.desc.back) :
        (input.desc.front \o input.desc.back)[i].k = ""

(* C11: parseVector reports a format error (isValid = false) when a string with
   the correct prefix holds a malformed token (no colon, empty key, empty value
   or more than one colon), even if all 11 base metrics are present and
   in-domain. *)
C11_MalformedTokenRejected ==
    (pc = "parsed" /\ CorrectPrefix /\ HasMalformedToken) => result.isValid = FALSE

(***************************************************************************)
(* SpecBuild: buildVector called on objects holding any subset of the base *)
(* metrics                                                                 *)
(***************************************************************************)
\* the values the keys present hold: the defaults, other options, out-of-domain text
BuildProfiles ==
    BaseProfiles \cup {[k \in BASE_KEYS |-> BadValue]}

\* obj with only the keys of S
Restrict(obj, S) == [k \in S \cap DOMAIN obj |-> obj[k]]

BuildInputs ==
    {Restrict(b, S) : b \in BuildProfiles, S \in SUBSET BASE_KEYS}
        \cup {Override(Restrict(b, S), [E |-> "P", MSI |-> "S"]) :
                 b \in BuildProfiles, S \in SubsetsUpTo(BASE_KEYS, MaxEdits)}

InitBuild ==
    /\ pc = "call"
    /\ op = "buildVector"
    /\ input \in BuildInputs
    /\ result = <<>>
    /\ recheck = <<>>

CallBuildVector ==
    /\ pc = "call"
    /\ op = "buildVector"
    /\ result' = buildVector(input)
    /\ pc' = "built"
    /\ UNCHANGED <<op, input, recheck>>

SpecBuild == InitBuild /\ [][CallBuildVector]_vars

\* the 12 segments the claim describes for metrics object m
ExpectedSegments(m) ==
    LET order == <<"AV", "AC", "AT", "PR", "UI", "VC", "VI", "VA", "SC", "SI", "SA">>
        baseline == [AV |-> "N", AC |-> "L", AT |-> "N", PR |-> "N", UI |-> "N",
                     VC |-> "N", VI |-> "N", VA |-> "N", SC |-> "N", SI |-> "N",
                     SA |-> "N"]
    IN  <<"CVSS:4.0">> \o
        [i \in 1..11 |-> order[i] \o ":" \o
            (IF order[i] \in DOMAIN m THEN m[order[i]] ELSE baseline[order[i]])]

(* C12: for every metrics object (any subset of keys present, the empty object
   included) buildVector returns CVSS:4.0/ followed by exactly the 11 base
   metrics in the order AV, AC, AT, PR, UI, VC, VI, VA, SC, SI, SA as KEY:VALUE
   joined by slashes, with the supplied value when the key is present and the
   baseline default when it is missing. *)
C12_BuildVectorComplete ==
    pc = "built" =>
        /\ Split(result, "/") = ExpectedSegments(input)
        /\ input = <<>> =>
              result = "CVSS:4.0/AV:N/AC:L/AT:N/PR:N/UI:N/VC:N/VI:N/VA:N/SC:N/SI:N/SA:N"

\* reached: an object holding only AC, VI and an optional E was built with its
\* AC and VI values and the defaults elsewhere
C12_Witness ==
    /\ pc = "built"
    /\ DOMAIN input = {"AC", "VI", "E", "MSI"}
    /\ input["AC"] = "H" /\ input["VI"] = "L"
    /\ result = "CVSS:4.0/AV:N/AC:H/AT:N/PR:N/UI:N/VC:N/VI:L/VA:N/SC:N/SI:N/SA:N"

(***************************************************************************)
(* SpecSeverity: scoreToSeverity called on a score, then on the score one  *)
(* tenth higher                                                            *)
(***************************************************************************)
\* the highest score tried, in tenths
MaxScoreTenths == 100

InitSeverity ==
    /\ pc = "call"
    /\ op = "scoreToSeverity"
    /\ input \in {Null, Undefined, NaN} \cup {Num(n) : n \in 0..MaxScoreTenths}
    /\ result = <<>>
    /\ recheck = <<>>

CallScoreToSeverity ==
    /\ pc = "call"
    /\ op = "scoreToSeverity"
    /\ result' = scoreToSeverity(input)
    /\ pc' = "labelled"
    /\ UNCHANGED <<op, input, recheck>>

LabelNextTenth ==
    /\ pc = "labelled"
    /\ input.t = "number"
    /\ recheck' = scoreToSeverity(Num(input.v + 1))
    /\ pc' = "done"
    /\ UNCHANGED <<op, input, result>>

NextSeverity == CallScoreToSeverity \/ LabelNextTenth

SpecSeverity == InitSeverity /\ [][NextSeverity]_vars

\* the rank of a label, INFO lowest
Rank(label) ==
    CASE label = "INFO" -> 0
      [] label = "LOW" -> 1
      [] label = "MEDIUM" -> 2
      [] label = "HIGH" -> 3
      [] label = "CRITICAL" -> 4

(* C13: scoreToSeverity maps null, undefined and NaN to no label and otherwise
   partitions scores by fixed thresholds: >= 9.0 CRITICAL, 7.0 to below 9.0 HIGH,
   4.0 to below 7.0 MEDIUM, above 0.0 to below 4.0 LOW, 0.0 INFO; the boundaries
   9.0, 7.0, 4.0 and 0.0 land in CRITICAL, HIGH, MEDIUM and INFO, and the label
   never decreases in rank as the score increases. *)
C13_SeverityThresholds ==
    (pc \in {"labelled", "done"} /\ op = "scoreToSeverity") =>
        /\ input.t # "number" => result = NoLabel
        /\ input.t = "number" =>
              /\ result = "CRITICAL" <=> input.v >= 90
              /\ result = "HIGH" <=> (70 <= input.v /\ input.v < 90)
              /\ result = "MEDIUM" <=> (40 <= input.v /\ input.v < 70)
              /\ result = "LOW" <=> (0 < input.v /\ input.v < 40)
              /\ result = "INFO" <=> input.v = 0
        /\ pc = "done" => Rank(recheck) >= Rank(result)

\* reached: 8.9 was labelled HIGH and the next tenth, the boundary 9.0, CRITICAL
C13_Witness ==
    /\ pc = "done" /\ op = "scoreToSeverity"
    /\ input = Num(89)
    /\ result = "HIGH" /\ recheck = "CRITICAL"

(***************************************************************************)
(* SpecScenario: the default exploitability with every impact assignment   *)
(* is scored from the metrics object and again from the returned vector    *)
(***************************************************************************)
InitScenario ==
    /\ pc = "call"
    /\ op = "metricsToScore"
    /\ input \in {Override(CVSS4_DEFAULTS, i) : i \in ImpactProfiles}
    /\ result = <<>>
    /\ recheck = <<>>

SpecScenario == InitScenario /\ [][Next]_vars

\* AV:N/AC:L/AT:N/PR:N/UI:N/VC:H/VI:H/VA:H/SC:H/SI:H/SA:H
AllImpactsHigh ==
    [AV |-> "N", AC |-> "L", AT |-> "N", PR |-> "N", UI |-> "N", VC |-> "H",
     VI |-> "H", VA |-> "H", SC |-> "H", SI |-> "H", SA |-> "H"]

\* AV:N/AC:L/AT:N/PR:N/UI:N/VC:H/VI:H/VA:H/SC:N/SI:N/SA:N
VulnerableSystemHigh ==
    [AV |-> "N", AC |-> "L", AT |-> "N", PR |-> "N", UI |-> "N", VC |-> "H",
     VI |-> "H", VA |-> "H", SC |-> "N", SI |-> "N", SA |-> "N"]

(* C14: table fidelity: the base vector AV:N/AC:L/AT:N/PR:N/UI:N/VC:H/VI:H/VA:H/
   SC:H/SI:H/SA:H with no optional metrics scores exactly 10.0, severity CRITICAL,
   through both metricsToScore and vectorToScore. *)
C14_AllHighScoresTen ==
    (pc \in {"scored", "done"} /\ input = AllImpactsHigh) =>
        /\ result.score = Num(100)
        /\ result.severity = "CRITICAL"
        /\ pc = "done" =>
              /\ result.vector = "CVSS:4.0/AV:N/AC:L/AT:N/PR:N/UI:N/VC:H/VI:H/VA:H/SC:H/SI:H/SA:H"
              /\ recheck.isValid
              /\ recheck.score = Num(100)
              /\ recheck.severity = "CRITICAL"

\* reached: the all-high vector scored through metricsToScore and then vectorToScore
C14_Witness ==
    /\ pc = "done" /\ input = AllImpactsHigh
    /\ result.score = Num(100) /\ recheck.score = Num(100)

(* C15: the base vector AV:N/AC:L/AT:N/PR:N/UI:N/VC:H/VI:H/VA:H/SC:H/SI:H/SA:H with
   no optional or modified metrics is classified by macroVector as "000000". *)
C15_AllHighIs000000 ==
    (pc \in {"scored", "done"} /\ input = AllImpactsHigh) => result.steps.mv = "000000"

(* C15 as amended: that vector is classified by macroVector as "000100": EQ4 is
   1 because SC, SI and SA are H while neither MSI nor MSA is S. *)
C15_AllHighIs000100 ==
    (pc \in {"scored", "done"} /\ input = AllImpactsHigh) =>
        /\ result.steps.consulted
        /\ result.steps.mv = "000100"

\* reached: the all-high vector was classified on its way to a score
C15_Witness ==
    /\ pc = "scored" /\ input = AllImpactsHigh
    /\ result.steps.consulted /\ result.steps.mv = "000100"

(* C16: scenario 1: CVSS:4.0/AV:N/AC:L/AT:N/PR:N/UI:N/VC:H/VI:H/VA:H/SC:N/SI:N/SA:N
   is valid, is classified as MacroVector "000200", and vectorToScore returns for
   it a score derived from that table row with severity CRITICAL. *)
C16_ScenarioOne ==
    (pc = "done"
        /\ result.vector = "CVSS:4.0/AV:N/AC:L/AT:N/PR:N/UI:N/VC:H/VI:H/VA:H/SC:N/SI:N/SA:N") =>
        /\ recheck.isValid
        /\ recheck.severity = "CRITICAL"
        /\ macroVector(parseVector(Str(result.vector)).metrics.o) = "000200"
        /\ result.steps.mv = "000200"
        /\ result.steps.value = Lookup("000200")
        /\ ~result.steps.fallback
        /\ recheck.score = result.score
        /\ recheck.score.v <= result.steps.value.v
        /\ \A i \in 1..5 : result.steps.avail[i].t = "number" =>
              recheck.score.v > result.steps.value.v - result.steps.avail[i].v

\* reached: the scenario vector was re-scored from its string
C16_Witness ==
    /\ pc = "done" /\ input = VulnerableSystemHigh
    /\ recheck.isValid /\ recheck.severity = "CRITICAL"
    /\ result.steps.mv = "000200"

(***************************************************************************)
(* SpecTable: the lookup table is read under every six-digit key, one key  *)
(* per step, counting the keys it holds                                    *)
(***************************************************************************)
\* the highest digit of the keys tried
MaxDigit == 2

KeyBase == MaxDigit + 1
KeyCount == KeyBase * KeyBase * KeyBase * KeyBase * KeyBase * KeyBase

\* the n-th six-digit key, n from 0, in ascending order
NthKey(n) ==
    MacroKey(<<(n \div (KeyBase * KeyBase * KeyBase * KeyBase * KeyBase)) % KeyBase,
               (n \div (KeyBase * KeyBase * KeyBase * KeyBase)) % KeyBase,
               (n \div (KeyBase * KeyBase * KeyBase)) % KeyBase,
               (n \div (KeyBase * KeyBase)) % KeyBase,
               (n \div KeyBase) % KeyBase,
               n % KeyBase>>)

InitTable ==
    /\ pc = "scan"
    /\ op = "lookup"
    /\ input = 0
    /\ result = [key |-> "", value |-> Undefined, found |-> 0]
    /\ recheck = <<>>

\* LOOKUP_TABLE[key] for the next key
ReadRow ==
    /\ pc = "scan"
    /\ input < KeyCount
    /\ result' = [key |-> NthKey(input), value |-> Lookup(NthKey(input)),
                  found |-> result.found
                              + (IF Lookup(NthKey(input)).t = "number" THEN 1 ELSE 0)]
    /\ input' = input + 1
    /\ pc' = IF input + 1 = KeyCount THEN "done" ELSE "scan"
    /\ UNCHANGED <<op, recheck>>

SpecTable == InitTable /\ [][ReadRow]_vars

(* C17: the lookup-table base value stored for MacroVector "000200" is 9.0. *)
C17_Row000200IsNine ==
    (op = "lookup" /\ result.key = "000200") => result.value = Num(90)

(* C17 as amended: the lookup-table base value stored for MacroVector "000200"
   is 9.3. *)
C17_Row000200 ==
    (op = "lookup" /\ result.key = "000200") => result.value = Num(93)

\* reached: the table was read under key 000200 and held a value
C17_Witness ==
    /\ op = "lookup" /\ result.key = "000200"
    /\ result.value.t = "number"

(* C18: the lookup table has exactly 246 keys, each a 6-digit string, and every
   value in it lies in [0, 10] and is a multiple of 0.1. *)
C18_Has246Keys ==
    op = "lookup" =>
        /\ result.value.t = "number" => (0 <= result.value.v /\ result.value.v <= 100)
        /\ pc = "done" =>
              /\ result.found = 246
              /\ Cardinality(DOMAIN LOOKUP_TABLE) = result.found

(* C18 as amended: the lookup table has exactly 270 keys, each a 6-digit string
   (every combination of EQ1..EQ6 digits except those with EQ3 = 2 and EQ6 = 0),
   and every value in it lies in [0, 10] and is a multiple of 0.1. *)
C18_Has270Keys ==
    op = "lookup" =>
        /\ result.value.t = "number" =>
              /\ 0 <= result.value.v /\ result.value.v <= 100
              /\ ~(SubSeq(result.key, 3, 3) = "2" /\ SubSeq(result.key, 6, 6) = "0")
        /\ pc = "done" =>
              /\ result.found = 270
              /\ Cardinality(DOMAIN LOOKUP_TABLE) = result.found

\* reached: every six-digit key has been tried and 270 of them held a value
C18_Witness ==
    /\ op = "lookup" /\ pc = "done"
    /\ input = KeyCount
    /\ result.found = 270

\* x, a fraction of tenths, clamped to [0.0, 10.0] and rounded half-up to a whole tenth
HalfUpTenth(x) ==
    LET clamped == IF x[1] < 0 THEN <<0, 1>>
                   ELSE IF x[1] > 100 * x[2] THEN <<100, 1>>
                   ELSE x
    IN  (2 * clamped[1] + clamped[2]) \div (2 * clamped[2])

(* C19: every score returned by metricsToScore, or by a valid vectorToScore, for
   in-domain metrics is a multiple of 0.1 within [0.0, 10.0]: the table value
   minus the mean contribution, clamped to [0, 10] and rounded half-up to one
   decimal (a value exactly on an x.x5 boundary rounds up). *)
C19_ScoreIsRoundedTenth ==
    (pc \in {"scored", "done"} /\ op = "metricsToScore" /\ WellFormed(input)) =>
        /\ result.score.t = "number"
        /\ 0 <= result.score.v /\ result.score.v <= 100
        /\ result.steps.consulted =>
              /\ ~result.steps.fallback
              /\ result.score.v =
                    HalfUpTenth(<<result.steps.value.v * result.steps.mean[2]
                                      - result.steps.mean[1],
                                  result.steps.mean[2]>>)
        /\ (pc = "done" /\ recheck.isValid) =>
              /\ recheck.score.t = "number"
              /\ 0 <= recheck.score.v /\ recheck.score.v <= 100

\* reached: a pre-rounding value exactly halfway between two tenths was rounded up
C19_Witness ==
    /\ pc = "scored" /\ op = "metricsToScore" /\ WellFormed(input)
    /\ result.steps.consulted
    /\ result.steps.mean[1] > 0
    /\ (2 * result.steps.raw[1]) % result.steps.raw[2] = 0
    /\ ((2 * result.steps.raw[1]) \div result.steps.raw[2]) % 2 = 1
    /\ 2 * result.score.v = (2 * result.steps.raw[1]) \div result.steps.raw[2] + 1

(***************************************************************************)
(* SpecModified: a metrics object is scored with a modified metric MK set, *)
(* and with the base metric K set instead                                  *)
(***************************************************************************)
\* how many keys of the metrics object may differ from the all-default object
MaxModifiedEdits == 1

\* obj without key k
Without(obj, k) == [x \in (DOMAIN obj) \ {k} |-> obj[x]]

InitModified ==
    /\ pc = "call"
    /\ op = "metricsToScore"
    /\ \E S \in SubsetsUpTo(BASE_KEYS \cup OPTIONAL_KEYS, MaxModifiedEdits) :
          \E f \in EditsOf(S) : input = Override(CVSS4_DEFAULTS, f)
    /\ result = <<>>
    /\ recheck = <<>>

\* metricsToScore({...m, MK: v}) and metricsToScore({...m without MK, K: v})
ScoreModifiedAndBase(k, v) ==
    /\ pc = "call"
    /\ result' = metricsToScore(Override(input, ("M" \o k) :> v))
    /\ recheck' = [metric |-> k, value |-> v,
                   scored |-> metricsToScore(Override(Without(input, "M" \o k), k :> v))]
    /\ pc' = "done"
    /\ UNCHANGED <<op, input>>

\* metricsToScore({...m, MK: 'X'}) and metricsToScore({...m without MK})
ScorePlaceholderAndAbsent(k) ==
    /\ pc = "call"
    /\ result' = metricsToScore(Override(input, ("M" \o k) :> "X"))
    /\ recheck' = [metric |-> k, value |-> "X",
                   scored |-> metricsToScore(Without(input, "M" \o k))]
    /\ pc' = "done"
    /\ UNCHANGED <<op, input>>

NextModified ==
    \/ \E k \in BASE_KEYS : \E v \in Options(k) : ScoreModifiedAndBase(k, v)
    \/ \E k \in BASE_KEYS : ScorePlaceholderAndAbsent(k)

SpecModified == InitModified /\ [][NextModified]_vars

(* C20: a modified metric supersedes its base counterpart: for every base metric
   K, every in-domain base value v of K and every metrics object m, the score of
   m with MK = v equals the score of m with K = v and MK absent, whatever m's own
   value of K; and MK = X gives the same score as MK absent. *)
C20_ModifiedSupersedesBase ==
    (pc = "done" /\ op = "metricsToScore") =>
        /\ result.score.t = "number"
        /\ result.score = recheck.scored.score

\* reached: MVC = H on an object whose own VC is N scored like VC = H, above 0.0
C20_Witness ==
    /\ pc = "done" /\ op = "metricsToScore"
    /\ recheck.metric = "VC" /\ recheck.value = "H"
    /\ input["VC"] = "N" /\ ~Has(input, "MVC")
    /\ result.score = recheck.scored.score
    /\ result.score.v > 0

(***************************************************************************)
(* SpecThreat: vectorToScore on a complete vector followed by one E token, *)
(* then on the same vector with that token left out                        *)
(***************************************************************************)
\* the E tokens a stored vector may carry: the enumeration of E and the value Z
\* that is outside it
THREAT_TOKENS ==
    {[raw |-> "E:" \o v, k |-> "E", v |-> v] : v \in {"X", "A", "P", "U", "Z"}}

InitThreat ==
    /\ pc = "call"
    /\ op = "vectorToScore"
    /\ \E i \in ImpactProfiles, e \in THREAT_TOKENS :
          LET d == [NoDescription EXCEPT !.prefix = "CVSS:4.0/",
                                         !.base = Override(CVSS4_DEFAULTS, i),
                                         !.back = <<e>>]
          IN  input = [js |-> Str(Render(d)), isVector |-> TRUE, desc |-> d]
    /\ result = <<>>
    /\ recheck = <<>>

ScoreWithoutExtras ==
    /\ pc = "done"
    /\ op = "vectorToScore"
    /\ recheck' = vectorToScore(Str(Render([input.desc EXCEPT !.front = <<>>,
                                                              !.back = <<>>])))
    /\ pc' = "compared"
    /\ UNCHANGED <<op, input, result>>

NextThreat == CallVectorToScore \/ ScoreWithoutExtras

SpecThreat == InitThreat /\ [][NextThreat]_vars

\* the vector scored ends with the token raw
EndsWithToken(raw) ==
    Len(input.desc.back) = 1 /\ input.desc.back[1].raw = raw

(* C21: a vector whose 11 base metrics are valid and that also carries the
   out-of-domain token E:Z is accepted (isValid = true) and E falls through to
   its default: vectorToScore returns exactly the score and severity of the same
   vector with the E token left out. *)
C21_UnknownThreatIsDefault ==
    (pc = "compared" /\ EndsWithToken("E:Z")) =>
        /\ result.isValid = TRUE
        /\ result.score = recheck.score
        /\ result.severity = recheck.severity

(***************************************************************************)
(* SpecBuckets: metricsToScore, then vectorToScore of the returned vector, *)
(* on in-domain objects that between them fall into every bucket of the    *)
(* lookup table                                                            *)
(***************************************************************************)
\* the values the metrics take in these objects, the metrics not named keeping
\* their default: every exploitability setting the classifier tells apart, with
\* few impacts, and every impact, threat and requirement setting, with one
\* exploitability setting for each pair of EQ1 and EQ2 digits
BucketProfiles ==
    [AV : {"N", "A", "P"}, PR : {"N", "L"}, UI : {"N", "P"}, AC : {"L", "H"},
     AT : {"N", "P"}, VC : {"H", "L"}, SC : {"H", "L"}]
    \cup
    [AV : {"N", "P"}, PR : {"N", "L"}, AC : {"L", "H"},
     VC : {"H", "L"}, VI : {"H", "L"}, VA : {"H", "L"}, SC : {"H", "L"},
     E : {"A", "P", "U"}, CR : {"H", "M"}, IR : {"H", "M"}, AR : {"H", "M"}]

\* with or without the Safety override of the subsequent system's availability
SafetyOverrides == {<<>>, [MSA |-> "S"]}

InitBuckets ==
    /\ pc = "call"
    /\ op = "metricsToScore"
    /\ \E b \in BucketProfiles, s \in SafetyOverrides :
          input = Override(Override(CVSS4_DEFAULTS, b), s)
    /\ result = <<>>
    /\ recheck = <<>>

SpecBuckets == InitBuckets /\ [][Next]_vars

\* the digit of the scored object's bucket for equivalence class eq (1..6)
Digit(eq) == SplitDigits(result.steps.mv)[eq]

\* the effective value of a metric of the scored object
Eff(metric) == effectiveValue(input, metric)

\* the raw (not resolved) value of a modified metric of the scored object is S
RawSafety(k) == Has(input, k) /\ input[k] = "S"

(* C22: for every in-domain metric assignment, macroVector returns the six digits
   of the documented classifier in EQ1..EQ6 order: EQ1 is 0 iff AV=PR=UI=N, 2 iff
   AV=P or none of AV, PR, UI equals N, else 1; EQ2 is 0 iff AC=L and AT=N; EQ3 is
   0 iff VC=H and VI=H, 1 iff otherwise any of VC, VI, VA is H, else 2; EQ4 is 0
   iff raw MSI=S or MSA=S, 1 iff otherwise any of SC, SI, SA is H, else 2; EQ5 is
   0 for E=A, 1 for E=P, else 2; EQ6 is 0 iff (CR=H and VC=H) or (IR=H and VI=H)
   or (AR=H and VA=H). *)
C22_DocumentedClassifier ==
    (pc = "scored" /\ WellFormed(input) /\ result.steps.consulted) =>
        /\ Len(result.steps.mv) = 6
        /\ Digit(1) \in 0..2 /\ Digit(2) \in 0..1 /\ Digit(3) \in 0..2
        /\ Digit(4) \in 0..2 /\ Digit(5) \in 0..2 /\ Digit(6) \in 0..1
        /\ Digit(1) = 0 <=> (Eff("AV") = "N" /\ Eff("PR") = "N" /\ Eff("UI") = "N")
        /\ Digit(1) = 2 <=> \/ Eff("AV") = "P"
                            \/ Eff("AV") # "N" /\ Eff("PR") # "N" /\ Eff("UI") # "N"
        /\ Digit(2) = 0 <=> (Eff("AC") = "L" /\ Eff("AT") = "N")
        /\ Digit(3) = 0 <=> (Eff("VC") = "H" /\ Eff("VI") = "H")
        /\ Digit(3) = 1 <=> /\ ~(Eff("VC") = "H" /\ Eff("VI") = "H")
                            /\ "H" \in {Eff("VC"), Eff("VI"), Eff("VA")}
        /\ Digit(4) = 0 <=> (RawSafety("MSI") \/ RawSafety("MSA"))
        /\ Digit(4) = 1 <=> /\ ~(RawSafety("MSI") \/ RawSafety("MSA"))
                            /\ "H" \in {Eff("SC"), Eff("SI"), Eff("SA")}
        /\ Digit(5) = 0 <=> Eff("E") = "A"
        /\ Digit(5) = 1 <=> Eff("E") = "P"
        /\ Digit(6) = 0 <=> \/ Eff("CR") = "H" /\ Eff("VC") = "H"
                            \/ Eff("IR") = "H" /\ Eff("VI") = "H"
                            \/ Eff("AR") = "H" /\ Eff("VA") = "H"

\* reached: an object with the Safety override, no H among SC, SI, SA, and none
\* of AV, PR, UI at N, classified 2 1 2 0 0 1
C22_Witness ==
    /\ pc = "scored" /\ WellFormed(input) /\ result.steps.consulted
    /\ RawSafety("MSA") /\ Eff("SC") = "L"
    /\ Eff("AV") = "A" /\ Eff("PR") = "L" /\ Eff("UI") = "P"
    /\ Eff("AC") = "L" /\ Eff("AT") = "P"
    /\ Eff("VC") = "L"
    /\ result.steps.mv = "212001"

\* the key of the scored object's bucket with the EQ3 and EQ6 digits replaced
CoupledKey(eq3, eq6) ==
    MacroKey([SplitDigits(result.steps.mv) EXCEPT ![3] = eq3, ![6] = eq6])

InTable(key) == key \in DOMAIN LOOKUP_TABLE

\* the available distance of an axis whose neighbour is the table row at key
DistanceTo(key) ==
    IF InTable(key) THEN Num(result.steps.value.v - LOOKUP_TABLE[key]) ELSE NaN

\* the larger of two table values
Larger(a, b) == IF a >= b THEN a ELSE b

(* C23: the neighbour value used for the coupled EQ3/EQ6 axis is: when
   (eq3, eq6) = (0, 0) the maximum of the table values at (eq3, eq6+1) and
   (eq3+1, eq6), taking whichever of the two exist and treating the axis as
   unavailable if neither exists; when (0, 1) or (1, 1) the table value at eq3+1
   alone; when (1, 0) the table value at eq6+1 alone; otherwise the table value
   with both digits incremented.  A neighbour key that is not in the table makes
   the axis unavailable and is never an error. *)
C23_CoupledNeighbour ==
    (pc = "scored" /\ result.steps.consulted /\ ~result.steps.fallback) =>
        LET eq3 == Digit(3)
            eq6 == Digit(6)
            right == CoupledKey(eq3, eq6 + 1)
            down == CoupledKey(eq3 + 1, eq6)
            both == CoupledKey(eq3 + 1, eq6 + 1)
            used == result.steps.avail[3]
        IN  /\ result.score.t = "number"
            /\ (eq3 = 0 /\ eq6 = 0) =>
                  used = IF InTable(right) /\ InTable(down)
                         THEN Num(result.steps.value.v
                                    - Larger(LOOKUP_TABLE[right], LOOKUP_TABLE[down]))
                         ELSE IF InTable(right) THEN DistanceTo(right)
                         ELSE DistanceTo(down)
            /\ (eq3 \in {0, 1} /\ eq6 = 1) => used = DistanceTo(down)
            /\ (eq3 = 1 /\ eq6 = 0) => used = DistanceTo(right)
            /\ eq3 \notin {0, 1} => used = DistanceTo(both)

\* reached: a bucket with (eq3, eq6) = (0, 0) whose neighbour at eq3+1 is worth
\* more than the one at eq6+1 and was the one used
C23_Witness ==
    /\ pc = "scored" /\ result.steps.consulted /\ ~result.steps.fallback
    /\ Digit(3) = 0 /\ Digit(6) = 0
    /\ InTable(CoupledKey(0, 1)) /\ InTable(CoupledKey(1, 0))
    /\ LOOKUP_TABLE[CoupledKey(1, 0)] > LOOKUP_TABLE[CoupledKey(0, 1)]
    /\ result.steps.avail[3] = DistanceTo(CoupledKey(1, 0))

\* the key of the scored object's bucket with the digit of eq one higher
StepKey(eq) ==
    MacroKey([SplitDigits(result.steps.mv) EXCEPT ![eq] = Digit(eq) + 1])

\* the axes (1 = EQ1, 2 = EQ2, 3 = EQ3/EQ6, 4 = EQ4, 5 = EQ5) that have an
\* available neighbour
AxesWithNeighbour ==
    {eq \in {1, 2, 4, 5} : InTable(StepKey(eq))}
        \cup {eq \in {3} : result.steps.avail[3].t = "number"}

\* the max severity depth of an axis of the scored object's bucket
Depth(axis) ==
    CASE axis = 1 -> MAX_SEVERITY.eq1[Digit(1)]
      [] axis = 2 -> MAX_SEVERITY.eq2[Digit(2)]
      [] axis = 3 -> MAX_SEVERITY.eq3eq6[Digit(3)][Digit(6)]
      [] axis = 4 -> MAX_SEVERITY.eq4[Digit(4)]

\* the normalized contribution of an axis: available distance times the share
\* of the depth the object sits below the bucket's maximum; nothing for EQ5 and
\* for an axis without a neighbour
Contribution(axis) ==
    IF axis \in AxesWithNeighbour \ {5}
    THEN Frac(result.steps.avail[axis].v * result.steps.dist[axis], Depth(axis))
    ELSE Frac(0, 1)

FracEq(a, b) == a[1] * b[2] = b[1] * a[2]

(* C24: the mean subtracted from the table value is the sum of the normalized
   contributions of the axes that have an available neighbour divided by the
   number of such axes, and 0 when no axis has one; the EQ5 axis always
   contributes exactly 0 to the sum but is counted in the divisor whenever the
   bucket with eq5+1 exists in the table. *)
C24_MeanOfContributions ==
    (pc = "scored" /\ result.steps.consulted /\ ~result.steps.fallback) =>
        LET count == Cardinality(AxesWithNeighbour)
            sum == FracAdd(FracAdd(Contribution(1), Contribution(2)),
                           FracAdd(Contribution(3), Contribution(4)))
        IN  /\ result.steps.n = count
            /\ (5 \in AxesWithNeighbour) = InTable(StepKey(5))
            /\ Contribution(5) = Frac(0, 1)
            /\ IF count = 0 THEN FracEq(result.steps.mean, Frac(0, 1))
               ELSE FracEq(result.steps.mean, FracDivInt(sum, count))
            /\ FracEq(result.steps.raw,
                      FracSub(Frac(result.steps.value.v, 1), result.steps.mean))

\* reached: a bucket whose EQ5 neighbour exists and whose EQ3/EQ6 neighbour does
\* not, with a positive mean over the four axes counted
C24_Witness ==
    /\ pc = "scored" /\ result.steps.consulted /\ ~result.steps.fallback
    /\ AxesWithNeighbour = {1, 2, 4, 5}
    /\ result.steps.n = 4
    /\ result.steps.mean[1] > 0

\* the digit combinations within the ranges the classifier's six digits take
ClassifierRange ==
    {<<eq1, eq2, eq3, eq4, eq5, eq6>> :
        eq1 \in 0..2, eq2 \in 0..1, eq3 \in 0..2, eq4 \in 0..2, eq5 \in 0..2, eq6 \in 0..1}

(* C25: every MacroVector that the classifier can produce is a key of the lookup
   table: the only digit combinations absent from the table are ones macroVector
   cannot return for any metrics object (EQ3 = 2 together with EQ6 = 0), so
   calculateScore never returns null, metricsToScore never returns a null score,
   and vectorToScore never reports 'Could not calculate score' for a string that
   parseVector accepts. *)
C25_ClassifiedKeyInTable ==
    /\ pc = "scored" =>
          /\ result.score.t # "null"
          /\ result.steps.consulted =>
                /\ SplitDigits(result.steps.mv) \in ClassifierRange
                /\ ~(Digit(3) = 2 /\ Digit(6) = 0)
                /\ InTable(result.steps.mv)
          /\ \A d \in ClassifierRange :
                ~InTable(MacroKey(d)) => (d[3] = 2 /\ d[6] = 0)
    /\ pc = "done" => recheck.error # Str("Could not calculate score")

\* reached: the object classified into the least severe bucket, 212221, was
\* scored from its table row, and so was the vector returned for it
C25_Witness ==
    /\ pc = "done"
    /\ result.steps.consulted /\ result.steps.mv = "212221"
    /\ result.steps.value = Num(LOOKUP_TABLE["212221"])
    /\ result.score.t = "number"
    /\ recheck.isValid /\ recheck.score.t = "number"

\* the combined reference vectors of the scored object's bucket
ReferenceVectors == BucketMaxVectors(SplitDigits(result.steps.mv))

\* reference vector i is at least as severe as the scored object in every metric
Dominates(i) == AllNonNegative(severityDistances(input, ReferenceVectors[i]))

(* C26: for every in-domain metric assignment (base metrics, E, CR, IR, AR, and
   modified metrics including MSI/MSA = S) that is not short-circuited to 0.0, at
   least one combined reference vector of the cartesian product for the
   classified bucket has every per-metric ordinal distance >= 0, so the fallback
   that returns the raw table value without interpolation is never taken for
   in-domain input. *)
C26_ReferenceVectorFits ==
    (pc = "scored" /\ WellFormed(input) /\ result.steps.consulted) =>
        /\ \E i \in 1..Len(ReferenceVectors) : Dominates(i)
        /\ ~result.steps.fallback

\* reached: an object with the Safety override that the first reference vector
\* of its bucket does not dominate and a later one does
C26_Witness ==
    /\ pc = "scored" /\ WellFormed(input) /\ result.steps.consulted
    /\ RawSafety("MSA")
    /\ Len(ReferenceVectors) > 1
    /\ ~Dominates(1)
    /\ \E i \in 2..Len(ReferenceVectors) : Dominates(i)
    /\ ~result.steps.fallback

\* the available distances of the axes that have a neighbour, in tenths
AvailableDistances ==
    {result.steps.avail[axis].v : axis \in AxesWithNeighbour}

(* C27: for every in-domain metric assignment that is not short-circuited,
   interpolation only lowers the bucket value and never past a neighbour: each
   available distance (table value minus neighbour value) is >= 0, each axis's
   summed current severity distance is >= 0 and strictly less than that axis's
   max severity depth, and therefore the final score is <= the classified
   bucket's table value and >= the smallest table value among the bucket's
   available neighbours. *)
C27_BetweenBucketAndNeighbour ==
    (pc = "scored" /\ WellFormed(input) /\ result.steps.consulted) =>
        /\ ~result.steps.fallback
        /\ \A axis \in AxesWithNeighbour :
              /\ result.steps.avail[axis].t = "number"
              /\ result.steps.avail[axis].v >= 0
        /\ \A axis \in 1..4 :
              /\ result.steps.dist[axis] >= 0
              /\ result.steps.dist[axis] < Depth(axis)
        /\ result.score.v <= result.steps.value.v
        /\ \A lowest \in AvailableDistances :
              (\A a \in AvailableDistances : a <= lowest) =>
                  result.score.v >= result.steps.value.v - lowest

\* reached: an object below its bucket's maximum on some axis whose score lies
\* strictly between the bucket's value and its lowest available neighbour
C27_Witness ==
    /\ pc = "scored" /\ WellFormed(input) /\ result.steps.consulted
    /\ \E axis \in 1..4 : result.steps.dist[axis] > 0
    /\ result.score.v < result.steps.value.v
    /\ \E lowest \in AvailableDistances :
          /\ \A a \in AvailableDistances : a <= lowest
          /\ result.score.v > result.steps.value.v - lowest

(* C28: the score is 0.0 (severity INFO) only in the no-impact case: for every
   in-domain metric assignment in which at least one of the effective VC, VI, VA,
   SC, SI, SA differs from N, the returned score is >= 0.1 and the severity is
   LOW or higher. *)
C28_ZeroOnlyWithoutImpact ==
    (/\ pc = "scored"
     /\ WellFormed(input)
     /\ \E k \in IMPACT_KEYS : Eff(k) # "N") =>
        /\ result.score.t = "number"
        /\ result.score.v >= 1
        /\ result.severity \in {"LOW", "MEDIUM", "HIGH", "CRITICAL"}

\* reached: an object whose base impact metrics are all N and whose only impact
\* is a modified metric was scored above zero
C28_Witness ==
    /\ pc = "scored" /\ WellFormed(input)
    /\ \A k \in IMPACT_KEYS : input[k] = "N"
    /\ \E k \in IMPACT_KEYS : Eff(k) # "N"
    /\ result.score.v >= 1
    /\ result.severity = "LOW"

(***************************************************************************)
(* SpecCalculator: the CvssCalculator component is mounted, its effects    *)
(* run, and the user clicks metric buttons and edits the vector text       *)
(***************************************************************************)
\* how many clicks and text edits the user makes
MaxEvents == 2

\* what a render shows: the three pieces of state, and the score and severity of
\* "const { score, severity } = metricsToScore(metrics)"
Rendered(metrics, vectorInput, vectorError) ==
    LET scored == metricsToScore(metrics)
    IN  [metrics |-> metrics, vectorInput |-> vectorInput, vectorError |-> vectorError,
         score |-> scored.score, severity |-> scored.severity]

\* the arguments of one onChange(vector, score, severity) call
OnChangeCall(metrics) ==
    LET scored == metricsToScore(metrics)
    IN  [vector |-> scored.vector, score |-> scored.score, severity |-> scored.severity]

\* useEffect(..., [initialVector]): the state it sets, and whether it called setMetrics
initialVectorEffect(c, initialVector) ==
    IF Falsy(initialVector) THEN [state |-> c, changed |-> FALSE]
    ELSE LET parsed == parseVector(initialVector)
         IN  IF parsed.isValid /\ parsed.metrics.t # "null"
             THEN [state |-> [c EXCEPT !.metrics = Override(CVSS4_DEFAULTS, parsed.metrics.o),
                                       !.vectorInput = initialVector.s],
                   changed |-> TRUE]
             ELSE [state |-> c, changed |-> FALSE]

\* a handler that also resets the metrics when the text is rejected
handleVectorInput_reset(c, raw) ==
    LET parsed == parseVector(Str(raw))
    IN  IF parsed.isValid /\ parsed.metrics.t # "null"
        THEN [state |-> [c EXCEPT !.metrics = Override(CVSS4_DEFAULTS, parsed.metrics.o),
                                  !.vectorInput = raw, !.vectorError = NoString],
              changed |-> TRUE]
        ELSE [state |-> [c EXCEPT !.metrics = CVSS4_DEFAULTS,
                                  !.vectorInput = raw, !.vectorError = parsed.error],
              changed |-> TRUE]

\* handleVectorInput: the state it sets, and whether it called setMetrics
handleVectorInput(c, raw) ==
    LET parsed == parseVector(Str(raw))
    IN  IF parsed.isValid /\ parsed.metrics.t # "null"
        THEN [state |-> [c EXCEPT !.metrics = Override(CVSS4_DEFAULTS, parsed.metrics.o),
                                  !.vectorInput = raw, !.vectorError = NoString],
              changed |-> TRUE]
        ELSE [state |-> [c EXCEPT !.vectorInput = raw, !.vectorError = parsed.error],
              changed |-> FALSE]

\* the description of the canonical vector string of base metrics b followed by
\* the tokens extras
VectorText(b, extras) ==
    [NoDescription EXCEPT !.prefix = "CVSS:4.0/", !.base = b, !.back = extras]

\* the vectors a finding may have stored, with and without a threat token
StoredVectors ==
    {VectorText(b, <<[raw |-> "E:P", k |-> "E", v |-> "P"]>>) : b \in BaseProfiles}
        \cup {VectorText([CVSS4_DEFAULTS EXCEPT !["VC"] = "H"], <<>>)}

\* vector texts the parser rejects: emptied, wrong prefix, a base metric with a
\* value outside its enumeration, a base metric missing
RejectedTexts ==
    {[NoDescription EXCEPT !.base = [k \in BASE_KEYS |-> Dropped]],
     [VectorText(CVSS4_DEFAULTS, <<>>) EXCEPT !.prefix = "CVSS:3.1/"],
     VectorText([CVSS4_DEFAULTS EXCEPT !["VC"] = BadValue], <<>>),
     VectorText([CVSS4_DEFAULTS EXCEPT !["SA"] = Dropped], <<>>)}

\* the buttons the user clicks: every option of two of the metrics
CLICKED_KEYS == {"AV", "VC"}

NoEvent == [kind |-> "none", raw |-> "", desc |-> NoDescription, key |-> "", value |-> ""]

\* the props: initialVector absent or one of the texts, onChange given or not;
\* the state is that of the first render
InitCalculator ==
    /\ pc = "mounted"
    /\ op = "CvssCalculator"
    /\ \E onChange \in BOOLEAN :
          \/ input = [js |-> Undefined, isVector |-> FALSE, desc |-> NoDescription,
                      onChange |-> onChange]
          \/ \E d \in StoredVectors \cup RejectedTexts :
                input = [js |-> Str(Render(d)), isVector |-> TRUE, desc |-> d,
                         onChange |-> onChange]
    /\ result = Rendered(CVSS4_DEFAULTS, "", NoString)
    /\ recheck = [calls |-> <<>>, events |-> 0, last |-> NoEvent,
                  before |-> Rendered(CVSS4_DEFAULTS, "", NoString), callsBefore |-> 0]

\* the onChange calls so far and one more, if the parent passed onChange
Emit(calls, metrics) ==
    IF input.onChange THEN Append(calls, OnChangeCall(metrics)) ELSE calls

\* both effects run after the first render, in the order they are declared; the
\* metrics effect reads the metrics of that render
MountEffects ==
    /\ pc = "mounted"
    /\ LET first == initialVectorEffect(result, input.js)
       IN  /\ result' = Rendered(first.state.metrics,
                                 buildVector(result.metrics), NoString)
           /\ pc' = IF first.changed THEN "effect" ELSE "idle"
    /\ recheck' = [recheck EXCEPT !.calls = Emit(recheck.calls, result.metrics)]
    /\ UNCHANGED <<op, input>>

\* useEffect(..., [metrics]) after a render with a new metrics object
MetricsEffect ==
    /\ pc = "effect"
    /\ result' = [result EXCEPT !.vectorInput = buildVector(result.metrics),
                                !.vectorError = NoString]
    /\ recheck' = [recheck EXCEPT !.calls = Emit(recheck.calls, result.metrics)]
    /\ pc' = "idle"
    /\ UNCHANGED <<op, input>>

\* the user clicks the button of value v of metric k
ClickMetric(k, v) ==
    /\ pc = "idle"
    /\ recheck.events < MaxEvents
    /\ result' = Rendered(handleMetric(result.metrics, k, v),
                          result.vectorInput, result.vectorError)
    /\ recheck' = [recheck EXCEPT !.events = @ + 1, !.before = result,
                                  !.callsBefore = Len(recheck.calls),
                                  !.last = [NoEvent EXCEPT !.kind = "metric",
                                                           !.key = k, !.value = v]]
    /\ pc' = "effect"
    /\ UNCHANGED <<op, input>>

\* the user changes the vector text to the string d describes
EditVector(d) ==
    /\ pc = "idle"
    /\ recheck.events < MaxEvents
    /\ LET handled == handleVectorInput(result, Render(d))
       IN  /\ result' = Rendered(handled.state.metrics, handled.state.vectorInput,
                                 handled.state.vectorError)
           /\ pc' = IF handled.changed THEN "effect" ELSE "idle"
    /\ recheck' = [recheck EXCEPT !.events = @ + 1, !.before = result,
                                  !.callsBefore = Len(recheck.calls),
                                  !.last = [NoEvent EXCEPT !.kind = "vectorInput",
                                                           !.raw = Render(d),
                                                           !.desc = d]]
    /\ UNCHANGED <<op, input>>

NextCalculator ==
    \/ MountEffects
    \/ MetricsEffect
    \/ \E k \in CLICKED_KEYS : \E v \in Options(k) : ClickMetric(k, v)
    \/ \E d \in StoredVectors \cup RejectedTexts : EditVector(d)

SpecCalculator == InitCalculator /\ [][NextCalculator]_vars

\* the text described is a complete, well-formed vector
DescValid(d) ==
    /\ d.prefix = "CVSS:4.0/"
    /\ \A k \in BASE_KEYS : d.base[k] \in Options(k)

\* the user's last action was an edit of the vector text the parser rejects
RejectedEdit == recheck.last.kind = "vectorInput" /\ ~DescValid(recheck.last.desc)

\* the user's last action was a metric button click or an accepted text edit
AcceptedAction ==
    \/ recheck.last.kind = "metric"
    \/ recheck.last.kind = "vectorInput" /\ DescValid(recheck.last.desc)

(* C29: in CvssCalculator, a vector-text edit that parseVector rejects leaves the
   metrics state unchanged (so the displayed score and severity do not change
   and no onChange is emitted for it), keeps the raw text in the input and sets
   vectorError to the parser's error message; vectorError is cleared again by
   the next accepted vector edit or metric button click. *)
C29_RejectedEditKeepsMetrics ==
    (op = "CvssCalculator" /\ pc = "idle") =>
        /\ RejectedEdit =>
              /\ result.metrics = recheck.before.metrics
              /\ result.score = recheck.before.score
              /\ result.severity = recheck.before.severity
              /\ Len(recheck.calls) = recheck.callsBefore
              /\ result.vectorInput = recheck.last.raw
              /\ result.vectorError.t = "string"
              /\ result.vectorError = parseVector(Str(recheck.last.raw)).error
        /\ AcceptedAction => result.vectorError = NoString

\* reached: with metrics other than the defaults on screen, a text with a value
\* outside VC's enumeration was rejected and its error is shown
C29_Witness ==
    /\ op = "CvssCalculator" /\ pc = "idle"
    /\ RejectedEdit
    /\ recheck.last.desc.base["VC"] = BadValue
    /\ result.metrics # CVSS4_DEFAULTS
    /\ result.metrics = recheck.before.metrics
    /\ result.vectorError = Str("Invalid value for VC: Q")

(* C30: when CvssCalculator is mounted with a valid initialVector and the user
   does nothing, every onChange call it makes carries a vector whose 11 base
   metrics equal those of initialVector (with the matching score and severity);
   it never reports the all-default vector or any other vector to its parent
   before or after loading the stored one. *)
C30_OnlyStoredVectorReported ==
    (op = "CvssCalculator" /\ CorrectPrefix /\ BaseComplete /\ recheck.events = 0) =>
        \A i \in 1..Len(recheck.calls) :
            /\ recheck.calls[i].vector
                  = "CVSS:4.0/" \o Join(BaseTokens(input.desc, 1), "/")
            /\ recheck.calls[i].score = vectorToScore(input.js).score
            /\ recheck.calls[i].severity = vectorToScore(input.js).severity
====
